---- MODULE Spec2Model ----
(***************************************************************************)
(* EmuNinja: the device lifecycle layer (EmulatorManager, DeviceInstance), *)
(* the TCP server interface's per-client loop and the stream-framed (SCPI) *)
(* protocol handler with its rule engine, the YAML rule engine, the raw    *)
(* protocol handler and the serial interface's listener.                   *)
(*                                                                         *)
(* The specifications that share the module:                               *)
(*   Spec      - EmulatorManager.start_all / stop_all and the asyncio      *)
(*               tasks they create, over a list of device definitions.     *)
(*   SpecConn  - several TCP clients of one device whose data handler is   *)
(*               the bound method ScpiProtocolHandler.handle_data.         *)
(*   SpecFrame - one ScpiProtocolHandler fed the same byte stream once as  *)
(*               a whole and once in chunks.                               *)
(*   SpecRules - RuleEngine.find_response and YamlRuleEngine.get_response  *)
(*               called on lists of rules and requests.                    *)
(*   SpecRegs  - RuleEngine.read_registers / write_register.               *)
(*   SpecRaw   - several TCP clients of one device whose data handler is   *)
(*               RawProtocolHandler.handle_data.                           *)
(*   SpecSerial - the _listen task of one serial device with the raw       *)
(*               handler, with start() and stop(); SpecSerialLive adds the *)
(*               event loop's scheduling.                                  *)
(*   SpecDelay - one server answering with the rules' delays, on a clock.  *)
(*   SpecTcp   - one TcpServerInterface with its clients, send() and       *)
(*               stop(); SpecTcpLive adds the event loop's scheduling.     *)
(*   SpecIface - one interface of either variant.                          *)
(*   SpecModbus - the devices of one manager and the registers of their    *)
(*               rule engines.                                             *)
(*   SpecReload - one YamlRuleEngine, its rules file and reload().         *)
(*   SpecRun   - one DTEEmulator.run() over a transport.                   *)
(*   SpecListen - the listen tasks of one SerialInterface under any order  *)
(*               of start() and stop() calls.                              *)
(*   SpecSame  - one frame given to the stream-framed handler and to the   *)
(*               raw handler over the same rules.                          *)
(*   SpecShared - one RuleEngine whose registers the tasks of two          *)
(*               connections read and write.                               *)
(***************************************************************************)
EXTENDS Integers, Sequences, FiniteSets, TLC

VARIABLES
    \* ---- EmulatorManager / DeviceInstance (Spec)
    defs,         \* the device definitions load_configs() returned
    devices,      \* EmulatorManager.devices: name -> instance id
    inst,         \* every DeviceInstance constructed so far, by id
    mgrPc,        \* where the caller of start_all / stop_all is
    startTasks,   \* ids whose asyncio task instance.start() has not run yet
    stopTasks,    \* <<gather, id>>: instance.stop() coroutines gathered, not run
                  \* yet; gather is "cur" for the stop_all in progress, "old"
                  \* for one that has already raised
    stopRaised,   \* a stop() gathered by the stop_all in progress has raised
    genBase,      \* number of instances that existed before the last start_all
    startAllRes,  \* "returned" or "raised" once start_all, the last call, ended
    stopAllRes,   \* "returned" or "raised" once stop_all, the last call, ended
    \* ---- the rule engine and the SCPI handler of one device (SpecConn, SpecFrame)
    rules,        \* RuleEngine._compiled_rules
    buffer,       \* ScpiProtocolHandler._buffer: one per handler, so one per device
    \* ---- TcpServerInterface._handle_client, one per connection (SpecConn)
    toSend,       \* per connection: the bytes reader.read has not returned yet
    hpc,          \* per connection: "read", or "sleep" inside handle_data
    parts,        \* per connection: response_parts of the handle_data in progress
    pend,         \* per connection: the match whose delay is being slept
    out,          \* per connection: the fragments written with writer.write
    frames,       \* every command extracted from the buffer, in extraction order
    \* ---- one stream through two handlers (SpecFrame)
    stream,       \* the input bytes
    fed,          \* how many of them the chunked handler has been given
    hChunked,     \* the handler given the stream in chunks
    hWhole,       \* the handler given the stream in one call
    \* ---- calls of the two rule engines (SpecRules)
    yrules,       \* YamlRuleEngine.rules
    callReq,      \* the request of the last find_response call
    callRes,      \* what that call returned
    callMsg,      \* the message of the last get_response call
    callRule,     \* what that call returned
    \* ---- the register store of a RuleEngine (SpecRegs)
    registers,    \* RuleEngine.registers: register type -> address -> value
    written,      \* the write_register calls made, with what they returned
    readRes,      \* the last read_registers call since the last write
    \* ---- TCP clients of a device with the raw handler (SpecRaw, with toSend,
    \*      hpc, pend and out)
    conn,         \* per connection: "open", or "closed" once its loop has ended
    served,       \* per connection: the handler calls made for it, with their end
    \* ---- SerialInterface._listen of a device with the raw handler (SpecSerial)
    sport,        \* self._serial_port: "open" or "closed"
    sbuf,         \* the listener's local buffer
    sIn,          \* the bytes the peer has still to send
    sOut,         \* what has been written to the port, one entry per send
    spc,          \* "listen", or "backoff" in the sleep of an except clause
    sCause,       \* what the except clause caught last: "handler", "io", "none"
    sStop,        \* self._stop_event is set
    sTask,        \* self._listen_task: "none", "running" or "done"
    stopPc,       \* the caller of stop(): "none", "waiting", "returned"
    sAgain,       \* the last stop() was called with no listen task running
    \* ---- one server answering with the rules' delays, on a clock (SpecDelay)
    now,          \* the event loop's clock, in ticks
    dKind,        \* "dte": DTEEmulator.serve_once, "scpi": ScpiProtocolHandler
    dIn,          \* the bytes the peer has still to send
    dpc,          \* "read", or "sleep" inside asyncio.sleep
    dPend,        \* while asleep: the match, when it was made, when the sleep ends
    dParts,       \* the responses produced by the call in progress, stamped
    dOut,         \* the responses written, stamped
    dMatched,     \* the messages serve_once has read that a rule matched
    \* ---- one TcpServerInterface and its clients (SpecTcp)
    iface,        \* the interface variant in use: "serial", "tcp", or "none"
    tServer,      \* self._server: "none", "listening", "closed" (close() called)
    tServerTask,  \* self._server_task: "none", "running", "done"
    tWriters,     \* self._writers: the connections tracked
    tLock,        \* self._writers_lock: "free", or "send" while send() holds it
    tConn,        \* per connection: "none", "accepted", "running", "handling",
                  \* "ending" (loop over, finally clause not yet run), "ended"
    tClosing,     \* the connections whose writer is closing or closed
    tSend,        \* the send() in progress
    tStopPc,      \* where the caller of stop() is
    tAgain,       \* the last stop() was called with no server set
    \* ---- devices configured with modbus_tcp under one manager (SpecModbus)
    dicts,        \* the registers dict objects, by the device whose config
                  \* holds them: type -> address -> what the config gives
    context,      \* per device: the handler's self.context, type -> address -> value;
                  \* <<>> where no handler could be built
    lastWrite,    \* the last register write made, through either side
    writesMade,   \* the number of writes made
    \* ---- one YamlRuleEngine and its rules file (SpecReload, with yrules,
    \*      callMsg and callRule)
    ruleFile,     \* what the file at self.path holds
    reloadRes,    \* the last reload(): how it ended, from what, over which rules
    seenRules,    \* the list the last get_response went through
    \* ---- one DTEEmulator.run() over a transport (SpecRun)
    rpc,          \* where run() is: "idle", "opening", "serving", "closing",
                  \* "returned", or "raised" when an exception left it
    rTransport,   \* the transport: "closed", "open", or "closing"
    rLog,         \* what run() has awaited to its end, in order
    rCause,       \* what ended the try block: "none", "cancelled",
                  \* "interrupted", "fatal"
    \* ---- the listen tasks of one SerialInterface under start() and stop()
    \*      calls made in any order (SpecListen)
    lsn,          \* every listen task created: "running" or "done"
    lsnTask,      \* self._listen_task: 0 for None, or the task
    lsnStop,      \* self._stop_event.is_set()
    lsnPort,      \* self._serial_port: "closed" or "open"
    lsnPc,        \* the stop() in progress: 0, or the task it waits for
    lsnPending,   \* every task DeviceInstance.start created, the last being
                  \* self._task: "pending", "done" or "cancelled"
    \* ---- one frame given to a stream-framed handler and to a raw handler
    \*      over the same rules (SpecSame, with rules)
    cmpReq,       \* the frame, terminator included
    cmpScpi,      \* what the stream-framed handler matched and returned
    cmpRaw,       \* what the raw handler matched and returned
    \* ---- one RuleEngine whose registers the tasks of two connections
    \*      read and write (SpecShared)
    shRegs,       \* self.registers
    shOps,        \* per connection: the call its task is in, or made last
    shLog         \* the write_register calls made, in order

mgrVars == <<defs, devices, inst, mgrPc, startTasks, stopTasks, stopRaised,
             genBase, startAllRes, stopAllRes>>

connVars == <<toSend, hpc, parts, pend, out, frames>>

frameVars == <<stream, fed, hChunked, hWhole>>

matchVars == <<yrules, callReq, callRes, callMsg, callRule>>

\* The variables of the specifications that follow the first three.
regVars == <<registers, written, readRes>>

rawVars == <<conn, served>>

serVars == <<sport, sbuf, sIn, sOut, spc, sCause, sStop, sTask, stopPc, sAgain>>

delayVars == <<now, dKind, dIn, dpc, dPend, dParts, dOut, dMatched>>

\* The variables of the specifications further down.
tcpVars == <<iface, tServer, tServerTask, tWriters, tLock, tConn, tClosing, tSend,
             tStopPc, tAgain>>

modVars == <<dicts, context, lastWrite, writesMade>>

relVars == <<ruleFile, reloadRes, seenRules>>

\* The variables of the last specifications.
runVars == <<rpc, rTransport, rLog, rCause>>

lsnVars == <<lsn, lsnTask, lsnStop, lsnPort, lsnPc, lsnPending>>
cmpVars == <<cmpReq, cmpScpi, cmpRaw>>
shVars == <<shRegs, shOps, shLog>>
newVars == <<lsnVars, cmpVars, shVars>>

lastVars == <<relVars, runVars, newVars>>

laterVars == <<delayVars, tcpVars, modVars, lastVars>>

extVars == <<matchVars, regVars, rawVars, serVars, laterVars>>

vars == <<mgrVars, rules, buffer, connVars, frameVars, extVars>>

\* What the manager's operations leave alone.
notMgr == <<rules, buffer, connVars, frameVars, extVars>>

----------------------------------------------------------------------------
(* Bounds of the model. *)

NumDefs == 2       \* device definitions in the devices directory
MaxInst == 3       \* instances constructed over all calls of start_all
NumConns == 2      \* TCP clients connected to the device
MaxLen == 4        \* bytes of the stream given to the two handlers
MaxRules == 2      \* rules of a rule engine
MaxReq == 2        \* characters of a request given to a rule engine
MaxAddr == 2       \* highest register address written or read from
MaxCount == 2      \* highest count of a read_registers call
MaxWrites == 2     \* write_register calls made
MaxTime == 3       \* ticks of the event loop's clock
MaxStarts == 3     \* listen tasks created on one serial interface

----------------------------------------------------------------------------
(* Device definitions. enabled is "T", "F" or "X" (a value that is not a   *)
(* boolean); itype "usb" and the ptypes "scpi" and "modbus_tcp" are the    *)
(* definitions the factory fails on.                                       *)

DefSet ==
    { [name |-> "a", enabled |-> "T", itype |-> "tcp",    ptype |-> "raw"],
      [name |-> "b", enabled |-> "X", itype |-> "serial", ptype |-> "raw"],
      [name |-> "b", enabled |-> "T", itype |-> "tcp",    ptype |-> "modbus_tcp"],
      [name |-> "a", enabled |-> "T", itype |-> "tcp",    ptype |-> "scpi"],
      [name |-> "b", enabled |-> "T", itype |-> "usb",    ptype |-> "raw"],
      [name |-> "a", enabled |-> "F", itype |-> "tcp",    ptype |-> "raw"] }

\* start_all: a non-boolean 'enabled' is assumed true; false skips the device.
is_enabled(d) == d.enabled # "F"

\* _create_interface: serial and tcp are built, any other type raises ValueError.
create_interface(d) == IF d.itype \in {"serial", "tcp"} THEN "ok" ELSE "raise"

\* The abstract methods of ProtocolHandler (protocols/base.py) a handler
\* class leaves undefined: ModbusTcpProtocolHandler defines start and stop
\* and no handle_data.
abstract_left(ptype) == IF ptype = "modbus_tcp" THEN {"handle_data"} ELSE {}

\* The number of arguments __init__ of the handler class takes after self,
\* and the number _create_protocol calls the class with.
init_takes(ptype) == IF ptype = "modbus_tcp" THEN 3 ELSE 2
called_with(ptype) == IF ptype = "raw" THEN 2 ELSE 3

\* Calling a handler class: TypeError for a class with an abstract method
\* left, and for a number of arguments __init__ does not take.
instantiate(ptype) ==
    IF abstract_left(ptype) # {} THEN "raise"
    ELSE IF called_with(ptype) # init_takes(ptype) THEN "raise"
    ELSE "ok"

\* _create_protocol: the class of a raw, scpi or modbus_tcp type is called;
\* a missing or any other type raises ValueError. Only raw is built: scpi is
\* called with three arguments for the two of ScpiProtocolHandler.__init__,
\* and ModbusTcpProtocolHandler is abstract.
create_protocol(d) ==
    CASE d.ptype \in {"raw", "scpi", "modbus_tcp"} -> instantiate(d.ptype)
      [] OTHER -> "raise"

\* _create_device_instance: the interface first, then the protocol; re-raises.
create_device_instance(d) ==
    IF create_interface(d) = "raise" THEN "raise"
    ELSE IF create_protocol(d) = "raise" THEN "raise"
    ELSE "ok"

\* DeviceInstance.__init__: no task yet. task is DeviceInstance._task, chan the
\* interface's listening server / open port, ptask the Modbus handler's
\* _server_task. History of the calls made on the instance: startRes is how
\* start() ended for its caller, bind how the first bind/open ended, stopped whether
\* stop() was ever called, reraised whether a stop() that followed an earlier
\* stop() and found nothing running has raised.
DeviceInstance(i, d) ==
    [def |-> i, name |-> d.name, itype |-> d.itype, ptype |-> d.ptype,
     task |-> "none", chan |-> "none", ptask |-> "none",
     startRes |-> "none", bind |-> "none",
     stopped |-> FALSE, reraised |-> FALSE]

\* hasattr(self.protocol, "start") / hasattr(self.protocol, "stop")
has_lifecycle(r) == r.ptype = "modbus_tcp"

\* devices[name] = instance
SetDevice(dv, name, id) ==
    [n \in (DOMAIN dv) \cup {name} |-> IF n = name THEN id ELSE dv[n]]

\* The for loop of start_all from definition i on: st is
\* [devices, inst, tasks, res]. A failure to construct is caught and logged.
\* (start_loop_nocatch is the loop without its try/except.)
RECURSIVE start_loop_nocatch(_, _, _)
start_loop_nocatch(ds, i, st) ==
    IF i > Len(ds) THEN st
    ELSE IF ~is_enabled(ds[i]) THEN start_loop_nocatch(ds, i + 1, st)
    ELSE IF create_device_instance(ds[i]) = "raise" THEN [st EXCEPT !.res = "raise"]
    ELSE LET id == Len(st.inst) + 1
         IN start_loop_nocatch(ds, i + 1,
                [st EXCEPT !.devices = SetDevice(st.devices, ds[i].name, id),
                           !.inst = Append(st.inst, DeviceInstance(i, ds[i])),
                           !.tasks = st.tasks \cup {id}])

RECURSIVE start_loop(_, _, _)
start_loop(ds, i, st) ==
    IF i > Len(ds) THEN st
    ELSE IF ~is_enabled(ds[i]) THEN start_loop(ds, i + 1, st)
    ELSE IF create_device_instance(ds[i]) = "raise" THEN start_loop(ds, i + 1, st)
    ELSE LET id == Len(st.inst) + 1
         IN start_loop(ds, i + 1,
                [st EXCEPT !.devices = SetDevice(st.devices, ds[i].name, id),
                           !.inst = Append(st.inst, DeviceInstance(i, ds[i])),
                           !.tasks = st.tasks \cup {id}])

\* Definition i is one start_all constructs and starts.
Startable(i) == is_enabled(defs[i]) /\ create_device_instance(defs[i]) = "ok"

\* get_active_device_count
get_active_device_count == Cardinality(DOMAIN devices)

\* The instances the manager tracks: self.devices.values()
Tracked == {devices[n] : n \in DOMAIN devices}

\* An instance is running while a task of it is pending or its channel is up.
is_running(r) == r.task = "pending" \/ r.chan = "up" \/ r.ptask = "running"

\* DeviceInstance.start: a handler with its own lifecycle (Modbus) is started,
\* which creates its server task; otherwise interface.start(handle_data) is
\* wrapped in a task. asyncio.create_task returns at once and never raises what
\* the coroutine raises later, so the except clause is never entered.
DeviceInstance_start(r) ==
    IF has_lifecycle(r)
    THEN [r EXCEPT !.ptask = "running", !.startRes = "ok"]
    ELSE [r EXCEPT !.task = "pending", !.startRes = "ok"]

\* ModbusTcpProtocolHandler.stop: cancel the server task and await it; only
\* CancelledError is swallowed, so the exception of a task that had failed is
\* raised again by the await.
ModbusTcpProtocolHandler_stop(r) ==
    CASE r.ptask = "none" -> [r |-> r, res |-> "ok"]
      [] r.ptask = "running" -> [r |-> [r EXCEPT !.ptask = "cancelled"], res |-> "ok"]
      [] r.ptask = "cancelled" -> [r |-> r, res |-> "ok"]
      [] r.ptask = "failed" -> [r |-> r, res |-> "raised"]

\* TcpServerInterface.stop / SerialInterface.stop: a no-op when nothing runs,
\* otherwise the server (the listener) is closed; errors are logged, not raised.
Interface_stop(r) == [r EXCEPT !.chan = "none"]

\* (DeviceInstance.stop awaiting self._task whether it is done or not: the
\* exception of a task that had failed is raised again by the await.)
DeviceInstance_stop_awaits_done(r) ==
    IF has_lifecycle(r) THEN ModbusTcpProtocolHandler_stop(r)
    ELSE IF r.task = "failed" THEN [r |-> r, res |-> "raised"]
    ELSE LET r1 == IF r.task = "pending" THEN [r EXCEPT !.task = "cancelled"] ELSE r
         IN [r |-> Interface_stop(r1), res |-> "ok"]

\* DeviceInstance.stop: the handler's own stop when it has one; otherwise a
\* pending task is cancelled and awaited, then the interface is stopped.
DeviceInstance_stop(r) ==
    IF has_lifecycle(r) THEN ModbusTcpProtocolHandler_stop(r)
    ELSE LET r1 == IF r.task = "pending" THEN [r EXCEPT !.task = "cancelled"] ELSE r
         IN [r |-> Interface_stop(r1), res |-> "ok"]

\* One stop() call on instance id, with its history recorded.
Stopped(id) ==
    LET call == DeviceInstance_stop(inst[id])
    IN [r |-> [call.r EXCEPT !.stopped = TRUE,
                             !.reraised = \/ @
                                          \/ /\ inst[id].stopped
                                             /\ ~is_running(inst[id])
                                             /\ call.res = "raised"],
        res |-> call.res]

----------------------------------------------------------------------------
(* The manager's operations and the tasks they leave to the event loop. *)

InitMgr ==
    /\ defs \in [1..NumDefs -> DefSet]
    /\ devices = <<>>
    /\ inst = <<>>
    /\ mgrPc = "idle"
    /\ startTasks = {}
    /\ stopTasks = {}
    /\ stopRaised = FALSE
    /\ genBase = 0
    /\ startAllRes = "none"
    /\ stopAllRes = "none"

\* start_all up to its await: self.devices = {}, the loop over the definitions,
\* one task per constructed instance. With no task there is nothing to await.
start_all ==
    /\ mgrPc = "idle"
    /\ Len(inst) + Cardinality({i \in DOMAIN defs : Startable(i)}) <= MaxInst
    /\ LET st == start_loop(defs, 1,
                     [devices |-> <<>>, inst |-> inst, tasks |-> {}, res |-> "ok"])
       IN /\ devices' = st.devices
          /\ inst' = st.inst
          /\ startTasks' = startTasks \cup st.tasks
          /\ IF st.res = "raise"
             THEN mgrPc' = "idle" /\ startAllRes' = "raised"
             ELSE IF st.tasks = {}
             THEN mgrPc' = "idle" /\ startAllRes' = "returned"
             ELSE mgrPc' = "start_gather" /\ startAllRes' = "none"
    /\ genBase' = Len(inst)
    /\ stopAllRes' = "none"
    /\ UNCHANGED <<defs, stopTasks, stopRaised>>
    /\ UNCHANGED notMgr

\* The task asyncio.create_task(instance.start()) runs. The event loop runs
\* the tasks that are ready in the order they were created.
start_task(id) ==
    /\ id \in startTasks
    /\ \A other \in startTasks : id <= other
    /\ inst' = [inst EXCEPT ![id] = DeviceInstance_start(@)]
    /\ startTasks' = startTasks \ {id}
    /\ UNCHANGED <<defs, devices, mgrPc, stopTasks, stopRaised, genBase,
                   startAllRes, stopAllRes>>
    /\ UNCHANGED notMgr

\* await asyncio.gather(*start_tasks, return_exceptions=True) completes.
start_all_return ==
    /\ mgrPc = "start_gather"
    /\ startTasks = {}
    /\ mgrPc' = "idle"
    /\ startAllRes' = "returned"
    /\ UNCHANGED <<defs, devices, inst, startTasks, stopTasks, stopRaised,
                   genBase, stopAllRes>>
    /\ UNCHANGED notMgr

\* The task DeviceInstance._task runs interface.start: TcpServerInterface.start
\* binds (asyncio.start_server), SerialInterface.start opens the port. On
\* failure the exception stays in the finished task.
interface_start(id) ==
    /\ id \in DOMAIN inst
    /\ inst[id].task = "pending"
    /\ \E ok \in BOOLEAN :
          inst' = [inst EXCEPT ![id] =
                     IF ok THEN [@ EXCEPT !.task = "done", !.chan = "up", !.bind = "ok"]
                     ELSE [@ EXCEPT !.task = "failed", !.bind = "failed"]]
    /\ UNCHANGED <<defs, devices, mgrPc, startTasks, stopTasks, stopRaised,
                   genBase, startAllRes, stopAllRes>>
    /\ UNCHANGED notMgr

\* stop_all up to its await: one stop() coroutine per tracked instance; with
\* none, the map is cleared at once.
stop_all ==
    /\ mgrPc = "idle"
    /\ stopRaised' = FALSE
    /\ IF Tracked = {}
       THEN /\ devices' = <<>>
            /\ mgrPc' = "idle"
            /\ stopAllRes' = "returned"
            /\ UNCHANGED stopTasks
       ELSE /\ stopTasks' = stopTasks \cup {<<"cur", id>> : id \in Tracked}
            /\ mgrPc' = "stop_gather"
            /\ stopAllRes' = "none"
            /\ UNCHANGED devices
    /\ startAllRes' = "none"
    /\ UNCHANGED <<defs, inst, startTasks, genBase>>
    /\ UNCHANGED notMgr

\* One gathered instance.stop() runs, the oldest first. An exception of it
\* reaches the gather only while that gather is still awaited.
stop_task(t) ==
    /\ t \in stopTasks
    /\ \A other \in stopTasks :
          \/ t[1] = "old" /\ other[1] = "cur"
          \/ t[1] = other[1] /\ t[2] <= other[2]
    /\ stopTasks' = stopTasks \ {t}
    /\ inst' = [inst EXCEPT ![t[2]] = Stopped(t[2]).r]
    /\ stopRaised' = IF t[1] = "cur" /\ Stopped(t[2]).res = "raised"
                     THEN TRUE ELSE stopRaised
    /\ UNCHANGED <<defs, devices, mgrPc, startTasks, genBase, startAllRes,
                   stopAllRes>>
    /\ UNCHANGED notMgr

\* await asyncio.gather(*stop_tasks) raises the first exception of a stop():
\* self.devices = {} is not reached; the other coroutines stay scheduled.
stop_all_raise ==
    /\ mgrPc = "stop_gather"
    /\ stopRaised
    /\ mgrPc' = "idle"
    /\ stopAllRes' = "raised"
    /\ stopTasks' = {<<"old", t[2]>> : t \in stopTasks}
    /\ stopRaised' = FALSE
    /\ UNCHANGED <<defs, devices, inst, startTasks, genBase, startAllRes>>
    /\ UNCHANGED notMgr

\* (stop_all without its last assignment, self.devices = {}.)
stop_all_return_keeps ==
    /\ mgrPc = "stop_gather"
    /\ ~stopRaised
    /\ \A t \in stopTasks : t[1] # "cur"
    /\ mgrPc' = "idle"
    /\ stopAllRes' = "returned"
    /\ UNCHANGED <<defs, devices, inst, startTasks, stopTasks, stopRaised,
                   genBase, startAllRes>>
    /\ UNCHANGED notMgr

\* The gather completes with every stop() done: self.devices = {}.
stop_all_return ==
    /\ mgrPc = "stop_gather"
    /\ ~stopRaised
    /\ \A t \in stopTasks : t[1] # "cur"
    /\ devices' = <<>>
    /\ mgrPc' = "idle"
    /\ stopAllRes' = "returned"
    /\ UNCHANGED <<defs, inst, startTasks, stopTasks, stopRaised, genBase,
                   startAllRes>>
    /\ UNCHANGED notMgr

\* The await of the gather in stop_all ends.
stop_all_gathered == IF stopRaised THEN stop_all_raise ELSE stop_all_return

\* A holder of an instance calls stop() on it directly.
stop_call(id) ==
    /\ id \in DOMAIN inst
    /\ mgrPc = "idle"
    /\ inst' = [inst EXCEPT ![id] = Stopped(id).r]
    /\ UNCHANGED <<defs, devices, mgrPc, startTasks, stopTasks, stopRaised,
                   genBase, startAllRes, stopAllRes>>
    /\ UNCHANGED notMgr

InstIds == 1..MaxInst

Next ==
    \/ start_all
    \/ \E id \in InstIds : start_task(id)
    \/ start_all_return
    \/ \E id \in InstIds : interface_start(id)
    \/ stop_all
    \/ \E t \in stopTasks : stop_task(t)
    \/ stop_all_gathered
    \/ \E id \in InstIds : stop_call(id)

\* The variables of the other specifications, unused and fixed.
IdleHandler ==
    /\ rules = <<>>
    /\ buffer = <<>>
IdleConn ==
    /\ toSend = <<>>
    /\ hpc = <<>>
    /\ parts = <<>>
    /\ pend = <<>>
    /\ out = <<>>
    /\ frames = <<>>
IdleFrame ==
    /\ stream = <<>>
    /\ fed = 0
    /\ hChunked = <<>>
    /\ hWhole = <<>>
IdleMatch ==
    /\ yrules = <<>>
    /\ callReq = <<>>
    /\ callRes = <<>>
    /\ callMsg = <<>>
    /\ callRule = <<>>
IdleRegs ==
    /\ registers = <<>>
    /\ written = <<>>
    /\ readRes = <<>>
IdleRaw ==
    /\ conn = <<>>
    /\ served = <<>>
IdleSer ==
    /\ sport = "closed"
    /\ sbuf = <<>>
    /\ sIn = <<>>
    /\ sOut = <<>>
    /\ spc = "listen"
    /\ sCause = "none"
    /\ sStop = FALSE
    /\ sTask = "none"
    /\ stopPc = "none"
    /\ sAgain = FALSE
IdleDelay ==
    /\ now = 0
    /\ dKind = "none"
    /\ dIn = <<>>
    /\ dpc = "read"
    /\ dPend = <<>>
    /\ dParts = <<>>
    /\ dOut = <<>>
    /\ dMatched = <<>>
IdleTcpState ==
    /\ tServer = "none"
    /\ tServerTask = "none"
    /\ tWriters = {}
    /\ tLock = "free"
    /\ tConn = <<>>
    /\ tClosing = {}
    /\ tSend = <<>>
    /\ tStopPc = "none"
    /\ tAgain = FALSE
IdleTcp == iface = "none" /\ IdleTcpState
IdleMod ==
    /\ dicts = <<>>
    /\ context = <<>>
    /\ lastWrite = <<>>
    /\ writesMade = 0
IdleRel ==
    /\ ruleFile = <<>>
    /\ reloadRes = <<>>
    /\ seenRules = <<>>
IdleRun ==
    /\ rpc = "idle"
    /\ rTransport = "closed"
    /\ rLog = <<>>
    /\ rCause = "none"
IdleLsn ==
    /\ lsn = <<>>
    /\ lsnTask = 0
    /\ lsnStop = FALSE
    /\ lsnPort = "closed"
    /\ lsnPc = 0
    /\ lsnPending = <<>>
IdleCmp ==
    /\ cmpReq = <<>>
    /\ cmpScpi = <<>>
    /\ cmpRaw = <<>>
IdleSh ==
    /\ shRegs = <<>>
    /\ shOps = <<>>
    /\ shLog = <<>>
IdleNew == IdleLsn /\ IdleCmp /\ IdleSh
IdleLast == IdleRel /\ IdleRun /\ IdleNew
IdleLater == IdleDelay /\ IdleTcp /\ IdleMod /\ IdleLast
IdleExt == IdleMatch /\ IdleRegs /\ IdleRaw /\ IdleSer /\ IdleLater
IdleMgr ==
    /\ defs = <<>>
    /\ devices = <<>>
    /\ inst = <<>>
    /\ mgrPc = "idle"
    /\ startTasks = {}
    /\ stopTasks = {}
    /\ stopRaised = FALSE
    /\ genBase = 0
    /\ startAllRes = "none"
    /\ stopAllRes = "none"

Init == InitMgr /\ IdleHandler /\ IdleConn /\ IdleFrame /\ IdleExt

Spec == Init /\ [][Next]_vars

----------------------------------------------------------------------------
(* Bytes and strings. A str or bytes value is [rep, s]: its representation *)
(* and its characters. "n" stands for the newline. On the wire each byte   *)
(* carries, beside its character ch, the connection src that sent it and   *)
(* its place k in what that connection sent.                               *)

Chars == {"P", "X", "n"}

Str(s) == [rep |-> "str", s |-> s]
Bytes(s) == [rep |-> "bytes", s |-> s]

\* The characters of a sequence of bytes on the wire.
Chr(bs) == [i \in DOMAIN bs |-> bs[i].ch]

\* characters cs as sent by connection c
Wire(cs, c) == [i \in DOMAIN cs |-> [ch |-> cs[i], src |-> c, k |-> i]]

\* s.startswith(p)
startswith(s, p) == Len(p) <= Len(s) /\ SubSeq(s, 1, Len(p)) = p

\* cs.find(sub): the 0-based index of the first occurrence, or -1.
find(cs, sub) ==
    LET hits == {i \in 0..(Len(cs) - Len(sub)) : SubSeq(cs, i + 1, i + Len(sub)) = sub}
    IN IF hits = {} THEN -1 ELSE CHOOSE i \in hits : \A j \in hits : i <= j

----------------------------------------------------------------------------
(* RuleEngine. A rule is [type, val, resp, delay, compiled]: val is the    *)
(* receive value, for a regex the pattern [s, dollar], which stands for    *)
(* the literal s, followed by $ when dollar; compiled tells whether        *)
(* re.compile accepted it. resp is the respond value [rep, s, enc]: rep    *)
(* "str", "bytes", "none" or "num" (any other type, s its str()), and enc  *)
(* whether its characters can be encoded in the handler's encoding.        *)

\* bytes.decode("utf-8", errors="ignore"): undecodable bytes are dropped.
decode_ignore(cs) == SelectSeq(cs, LAMBDA ch : ch \in Chars)

\* compiled_regex.match(request_str) for the pattern s or s$: the match is
\* anchored at the start; $ matches at the end and before a final newline.
regex_match(pat, cs) ==
    /\ startswith(cs, pat.s)
    /\ pat.dollar =>
         LET tail == SubSeq(cs, Len(pat.s) + 1, Len(cs))
         IN tail = <<>> \/ tail = <<"n">>

\* request_value == parsed_request: a str and a bytes are never equal.
eq(val, r) == val.rep = r.rep /\ val.s = r.s

\* The isinstance tests of a prefix rule: both str or both bytes.
any_rep(val, r) == TRUE
same_rep(val, r) == val.rep = r.rep

\* if compiled_regex: a pattern that did not compile left None behind.
regex_always(rule) == TRUE
regex_usable(rule) == rule.compiled

\* The body of find_response's loop for one rule: whether the rule matches.
\* == between a str and a bytes is false; a prefix needs both operands of the
\* same representation; a regex is matched against the request as text.
rule_matches(rule, req) ==
    CASE rule.type = "exact" -> eq(rule.val, req)
      [] rule.type = "prefix" ->
            /\ same_rep(rule.val, req)
            /\ startswith(req.s, rule.val.s)
      [] rule.type = "regex" ->
            /\ regex_usable(rule)
            /\ regex_match(rule.val,
                           IF req.rep = "bytes" THEN decode_ignore(req.s) ELSE req.s)
      [] OTHER -> FALSE

NoMatch == [found |-> FALSE]

\* find_response: the rules in declaration order, the first that matches.
\* (the loop run from the last rule to the first)
RECURSIVE find_from_last(_, _, _)
find_from_last(rs, i, req) ==
    IF i > Len(rs) THEN NoMatch
    ELSE LET later == find_from_last(rs, i + 1, req)
         IN IF later.found THEN later
            ELSE IF rule_matches(rs[i], req)
            THEN [found |-> TRUE, response |-> rs[i].resp, delay |-> rs[i].delay]
            ELSE NoMatch

RECURSIVE find_from(_, _, _)
find_from(rs, i, req) ==
    IF i > Len(rs) THEN NoMatch
    ELSE IF rule_matches(rs[i], req)
    THEN [found |-> TRUE, response |-> rs[i].resp, delay |-> rs[i].delay]
    ELSE find_from(rs, i + 1, req)

find_response(rs, req) == find_from(rs, 1, req)

----------------------------------------------------------------------------
(* ScpiProtocolHandler. *)

\* self.terminator: the configured terminator, "\n" by default.
terminator == <<"n">>

\* self._buffer.extend(received_data)
extend_forget(buf, data) == data
extend(buf, data) == buf \o data

\* response_parts.append(response_bytes), with the command that produced it.
append_front(ps, cmd, bs) == <<[frame |-> cmd, resp |-> bs]>> \o ps
append_part(ps, cmd, bs) == Append(ps, [frame |-> cmd, resp |-> bs])

\* The encoding of a matched response: a str is encoded (an exception of it
\* reaches the outer except), bytes are taken as they are, None gives nothing,
\* any other value is str()-ed and encoded inside a try that skips it on error.
encode_response(v) ==
    CASE v.rep = "str" -> IF v.enc THEN [k |-> "bytes", s |-> v.s] ELSE [k |-> "raise", s |-> <<>>]
      [] v.rep = "bytes" -> [k |-> "bytes", s |-> v.s]
      [] v.rep = "none" -> [k |-> "none", s |-> <<>>]
      [] OTHER -> IF v.enc THEN [k |-> "bytes", s |-> v.s] ELSE [k |-> "skip", s |-> <<>>]

\* The while loop of handle_data from its top, run to its next await or to its
\* end: st is "done" (break: no terminator left), "sleep" (a matched rule has a
\* delay; m and cmd are the match and its command) or "exc" (the except clause:
\* the buffer is cleared and the call returns None). fs collects the commands
\* extracted. after_delay is the loop body from the encoding of the response on.
\* The except clause of handle_data: self._buffer.clear() and return None; the
\* parts gathered by the call are dropped with it.
except_keep(buf, ps, fs) == [st |-> "exc", buf |-> buf, ps |-> <<>>, fs |-> fs]
except_clause(buf, ps, fs) == [st |-> "exc", buf |-> <<>>, ps |-> <<>>, fs |-> fs]

RECURSIVE drain(_, _, _, _)
RECURSIVE after_delay(_, _, _, _, _, _)
drain(rs, buf, ps, fs) ==
    LET t == find(Chr(buf), terminator)
    IN IF t = -1
       THEN [st |-> "done", buf |-> buf, ps |-> ps, fs |-> fs]
       ELSE LET cmd == SubSeq(buf, 1, t + Len(terminator))
                rest == SubSeq(buf, t + Len(terminator) + 1, Len(buf))
                m == find_response(rs, Bytes(Chr(cmd)))
            IN IF ~m.found
               THEN drain(rs, rest, ps, Append(fs, cmd))
               ELSE IF m.delay > 0
               THEN [st |-> "sleep", buf |-> rest, ps |-> ps, fs |-> Append(fs, cmd),
                     m |-> m, cmd |-> cmd]
               ELSE after_delay(rs, rest, ps, Append(fs, cmd), m, cmd)

after_delay(rs, buf, ps, fs, m, cmd) ==
    LET e == encode_response(m.response)
    IN CASE e.k = "raise" -> except_clause(buf, ps, fs)
         [] e.k = "bytes" -> drain(rs, buf, append_part(ps, cmd, e.s), fs)
         [] OTHER -> drain(rs, buf, ps, fs)

\* b"".join(response_parts)
RECURSIVE join(_)
join(ps) == IF ps = <<>> THEN <<>> ELSE Head(ps).resp \o join(Tail(ps))

\* What handle_data returns once the loop has ended in r: None after an
\* exception and when no part was produced, the joined parts otherwise.
response_of(r) ==
    IF r.st = "exc" \/ r.ps = <<>>
    THEN [some |-> FALSE, bs |-> <<>>, ps |-> <<>>]
    ELSE [some |-> TRUE, bs |-> join(r.ps), ps |-> r.ps]

\* await asyncio.sleep(match.delay) when nothing else touches the handler
\* meanwhile: the loop goes on after the delay, until the call ends.
RECURSIVE sleep_through(_, _)
sleep_through(rs, r) ==
    IF r.st = "sleep"
    THEN sleep_through(rs, after_delay(rs, r.buf, r.ps, r.fs, r.m, r.cmd))
    ELSE r

----------------------------------------------------------------------------
(* Rules as a configuration gives them. *)

RStr(s) == [rep |-> "str", s |-> s, enc |-> TRUE]
RBytes(s) == [rep |-> "bytes", s |-> s, enc |-> TRUE]

\* receive exact "PING", respond "PONG": both str, as YAML text is.
PingRules ==
    << [type |-> "exact", val |-> Str(<<"P">>), resp |-> RStr(<<"O">>),
        delay |-> 0, compiled |-> FALSE] >>

\* receive regex PING$ answered at once, prefix b"X" answered after a delay.
RegexRules ==
    << [type |-> "regex", val |-> [s |-> <<"P">>, dollar |-> TRUE],
        resp |-> RStr(<<"O">>), delay |-> 0, compiled |-> TRUE],
       [type |-> "prefix", val |-> Bytes(<<"X">>), resp |-> RBytes(<<"E">>),
        delay |-> 1, compiled |-> FALSE] >>

\* A str response the handler's encoding cannot encode, and a good one.
BadRules ==
    << [type |-> "prefix", val |-> Bytes(<<"X">>),
        resp |-> [rep |-> "str", s |-> <<"U">>, enc |-> FALSE],
        delay |-> 0, compiled |-> FALSE],
       [type |-> "regex", val |-> [s |-> <<"P">>, dollar |-> FALSE],
        resp |-> RStr(<<"O">>), delay |-> 0, compiled |-> TRUE] >>

\* A pattern re.compile rejected, a value neither str nor bytes that cannot be
\* encoded, a rule without a response value, a str prefix.
OddRules ==
    << [type |-> "regex", val |-> [s |-> <<"P">>, dollar |-> FALSE],
        resp |-> RStr(<<"O">>), delay |-> 0, compiled |-> FALSE],
       [type |-> "exact", val |-> Bytes(<<"P", "n">>),
        resp |-> [rep |-> "num", s |-> <<"U">>, enc |-> FALSE],
        delay |-> 0, compiled |-> FALSE],
       [type |-> "prefix", val |-> Bytes(<<"X", "X">>),
        resp |-> [rep |-> "none", s |-> <<>>, enc |-> TRUE],
        delay |-> 0, compiled |-> FALSE],
       [type |-> "prefix", val |-> Str(<<"X">>), resp |-> RStr(<<"E">>),
        delay |-> 0, compiled |-> FALSE],
       [type |-> "prefix", val |-> Bytes(<<"X">>),
        resp |-> [rep |-> "num", s |-> <<"7">>, enc |-> TRUE],
        delay |-> 0, compiled |-> FALSE] >>

----------------------------------------------------------------------------
(* SpecFrame: one input stream given to a handler in chunks and to         *)
(* another handler, with the same rules, in one call. Each handle_data     *)
(* call is awaited to its end before the next one.                         *)

\* A handler: its _buffer, and what its calls have returned (out) and
\* extracted (frames) so far; exc: a call ended in the except clause; calls:
\* the calls made; partial: a call completed a frame begun by an earlier chunk;
\* last: whether the last call ended in the except clause, whether it returned
\* bytes (None otherwise) and how many frames it extracted.
NewHandler ==
    [buf |-> <<>>, out |-> <<>>, frames |-> <<>>, exc |-> FALSE, calls |-> 0,
     partial |-> FALSE, last |-> [exc |-> FALSE, some |-> FALSE, n |-> 0]]

\* One handle_data call, awaited to its end, on handler h.
handle_data(rs, h, data) ==
    LET r == sleep_through(rs, drain(rs, extend(h.buf, data), <<>>, <<>>))
        resp == response_of(r)
    IN [buf |-> r.buf,
        out |-> h.out \o resp.bs,
        frames |-> h.frames \o [i \in DOMAIN r.fs |-> Chr(r.fs[i])],
        exc |-> h.exc \/ r.st = "exc",
        calls |-> h.calls + 1,
        partial |-> h.partial \/ (h.buf # <<>> /\ r.fs # <<>>),
        last |-> [exc |-> r.st = "exc", some |-> resp.some, n |-> Len(r.fs)]]

FrameRuleSets == {PingRules, RegexRules, BadRules, OddRules}

Streams == UNION {[1..n -> Chars] : n \in 1..MaxLen}

InitFrame ==
    /\ IdleMgr
    /\ IdleConn
    /\ IdleExt
    /\ buffer = <<>>
    /\ rules \in FrameRuleSets
    /\ stream \in Streams
    /\ fed = 0
    /\ hChunked = NewHandler
    /\ hWhole = NewHandler

\* The next n bytes of the stream are given to the chunked handler.
feed_chunk(n) ==
    /\ fed + n <= Len(stream)
    /\ hChunked' = handle_data(rules, hChunked,
                               SubSeq(Wire(stream, 0), fed + 1, fed + n))
    /\ fed' = fed + n
    /\ UNCHANGED <<mgrVars, rules, buffer, connVars, stream, hWhole, extVars>>

\* The whole stream is given to the other handler in one call.
feed_whole ==
    /\ hWhole.calls = 0
    /\ hWhole' = handle_data(rules, hWhole, Wire(stream, 0))
    /\ UNCHANGED <<mgrVars, rules, buffer, connVars, stream, fed, hChunked, extVars>>

NextFrame ==
    \/ \E n \in 1..MaxLen : feed_chunk(n)
    \/ feed_whole

SpecFrame == InitFrame /\ [][NextFrame]_vars

----------------------------------------------------------------------------
(* SpecConn: NumConns clients connected to one TCP device whose protocol   *)
(* is the stream-framed handler. start_server gives every connection the   *)
(* same data_handler, the bound method handle_data of the device's one     *)
(* handler, so all _handle_client loops extend and drain one _buffer. A    *)
(* step runs a coroutine from one await to the next.                       *)

Conns == 1..NumConns

\* What a client sends over its connection.
ConnStreams == {<<"X", "n", "P", "n">>, <<"P", "n", "P">>, <<"n">>, <<"P">>}

ConnRuleSets == {RegexRules, BadRules}

NoPend == [m |-> NoMatch, cmd |-> <<>>]

InitConn ==
    /\ IdleMgr
    /\ IdleFrame
    /\ IdleExt
    /\ rules \in ConnRuleSets
    /\ buffer = <<>>
    /\ \E ss \in [Conns -> ConnStreams] :
           toSend = [c \in Conns |-> Wire(ss[c], c)]
    /\ hpc = [c \in Conns |-> "read"]
    /\ parts = [c \in Conns |-> <<>>]
    /\ pend = [c \in Conns |-> NoPend]
    /\ out = [c \in Conns |-> <<>>]
    /\ frames = <<>>

\* handle_data of connection c has run up to r: either it sleeps, or it has
\* returned and _handle_client writes the response if it is truthy.
handle_data_step(c, r) ==
    /\ buffer' = r.buf
    /\ frames' = frames \o r.fs
    /\ IF r.st = "sleep"
       THEN /\ hpc' = [hpc EXCEPT ![c] = "sleep"]
            /\ parts' = [parts EXCEPT ![c] = r.ps]
            /\ pend' = [pend EXCEPT ![c] = [m |-> r.m, cmd |-> r.cmd]]
            /\ UNCHANGED out
       ELSE /\ hpc' = [hpc EXCEPT ![c] = "read"]
            /\ parts' = [parts EXCEPT ![c] = <<>>]
            /\ pend' = [pend EXCEPT ![c] = NoPend]
            /\ out' = [out EXCEPT ![c] =
                         IF response_of(r).some /\ response_of(r).bs # <<>>
                         THEN @ \o response_of(r).ps ELSE @]

\* _handle_client of connection c: reader.read returns the n bytes that have
\* arrived (fewer than the 1024 asked for) and the handler is called with them.
handle_client_read(c, n) ==
    /\ hpc[c] = "read"
    /\ n <= Len(toSend[c])
    /\ toSend' = [toSend EXCEPT ![c] = SubSeq(@, n + 1, Len(@))]
    /\ handle_data_step(c, drain(rules, extend(buffer, SubSeq(toSend[c], 1, n)),
                                 <<>>, <<>>))
    /\ UNCHANGED <<mgrVars, rules, frameVars, extVars>>

\* The sleep of connection c's handle_data is over: the loop goes on with the
\* buffer as it is now.
handle_data_wake(c) ==
    /\ hpc[c] = "sleep"
    /\ handle_data_step(c, after_delay(rules, buffer, parts[c], <<>>,
                                       pend[c].m, pend[c].cmd))
    /\ UNCHANGED <<mgrVars, rules, toSend, frameVars, extVars>>

NextConn ==
    \/ \E c \in Conns, n \in 1..MaxLen : handle_client_read(c, n)
    \/ \E c \in Conns : handle_data_wake(c)

SpecConn == InitConn /\ [][NextConn]_vars

----------------------------------------------------------------------------
(* YamlRule and YamlRuleEngine. A YamlRule is [is_regex, val, response,    *)
(* delay_ms]: val is [s, dollar], the match text s, or the pattern s or s$ *)
(* behind the "regex:" prefix. Messages are bytes, given by their          *)
(* characters.                                                             *)

\* The bytes that bytes.rstrip() removes; here the newline.
Whitespace == {"n"}

RECURSIVE rstrip(_)
rstrip(cs) ==
    IF cs # <<>> /\ cs[Len(cs)] \in Whitespace
    THEN rstrip(SubSeq(cs, 1, Len(cs) - 1))
    ELSE cs

\* self._compiled.fullmatch(msg) for the pattern s or s$: the whole message
\* must be consumed, so a newline that $ tolerates still makes it fail.
fullmatch(pat, cs) == cs = pat.s

\* msg.rstrip(), self._compiled.rstrip()
norstrip(cs) == cs
YamlRule_strip(cs) == rstrip(cs)

\* YamlRule.matches
YamlRule_matches(rule, msg) ==
    IF rule.is_regex
    THEN fullmatch(rule.val, msg)
    ELSE YamlRule_strip(msg) = YamlRule_strip(rule.val.s)

NoRule == [found |-> FALSE]

\* YamlRule.tx_end: self._config.get("tx_end"), None without the key.
YamlRule_tx_end(rule) ==
    IF "tx_end" \in DOMAIN rule THEN [some |-> TRUE, s |-> rule.tx_end]
    ELSE [some |-> FALSE]

\* YamlRuleEngine.get_response: the first rule that matches, or None.
RECURSIVE get_from(_, _, _)
get_from(rs, i, msg) ==
    IF i > Len(rs) THEN NoRule
    ELSE IF YamlRule_matches(rs[i], msg)
    THEN [found |-> TRUE, response |-> rs[i].response, delay_ms |-> rs[i].delay_ms,
          tx_end |-> YamlRule_tx_end(rs[i])]
    ELSE get_from(rs, i + 1, msg)

get_response(rs, msg) == get_from(rs, 1, msg)

----------------------------------------------------------------------------
(* SpecRules: one rule engine of either kind, built from a list of rules,  *)
(* and calls of its lookup with requests of every shape.                   *)

\* Rules of every kind; the response tells which rule answered.
RulePool ==
    { [type |-> "exact", val |-> Str(<<"P">>), resp |-> RStr(<<"1">>),
       delay |-> 0, compiled |-> FALSE],
      [type |-> "exact", val |-> Bytes(<<"P">>), resp |-> RStr(<<"2">>),
       delay |-> 1, compiled |-> FALSE],
      [type |-> "prefix", val |-> Str(<<"P">>), resp |-> RStr(<<"3">>),
       delay |-> 0, compiled |-> FALSE],
      [type |-> "prefix", val |-> Bytes(<<"P">>), resp |-> RStr(<<"4">>),
       delay |-> 0, compiled |-> FALSE],
      [type |-> "regex", val |-> [s |-> <<"P">>, dollar |-> TRUE],
       resp |-> RStr(<<"5">>), delay |-> 0, compiled |-> TRUE],
      [type |-> "regex", val |-> [s |-> <<"P">>, dollar |-> FALSE],
       resp |-> RStr(<<"6">>), delay |-> 0, compiled |-> FALSE],
      [type |-> "exact", val |-> Str(<<"P", "n">>), resp |-> RStr(<<"7">>),
       delay |-> 0, compiled |-> FALSE] }

YamlPool ==
    { [is_regex |-> FALSE, val |-> [s |-> <<"P">>, dollar |-> FALSE],
       response |-> <<"1">>, delay_ms |-> 0],
      [is_regex |-> FALSE, val |-> [s |-> <<"P", "n">>, dollar |-> FALSE],
       response |-> <<"2">>, delay_ms |-> 50],
      [is_regex |-> TRUE, val |-> [s |-> <<"P">>, dollar |-> TRUE],
       response |-> <<"3">>, delay_ms |-> 0],
      [is_regex |-> FALSE, val |-> [s |-> <<"p", "P">>, dollar |-> FALSE],
       response |-> <<"4">>, delay_ms |-> 0] }

Lists(S, n) == UNION {[1..k -> S] : k \in 1..n}

ReqChars == {"P", "p", "n"}

Texts == {<<>>} \cup Lists(ReqChars, MaxReq)

Requests == {Str(t) : t \in Texts} \cup {Bytes(t) : t \in Texts}

NoCall == [made |-> FALSE]

InitRules ==
    /\ IdleMgr
    /\ IdleConn
    /\ IdleFrame
    /\ buffer = <<>>
    /\ \/ rules \in Lists(RulePool, MaxRules) /\ yrules = <<>>
       \/ rules = <<>> /\ yrules \in Lists(YamlPool, MaxRules)
    /\ callReq = NoCall
    /\ callRes = NoMatch
    /\ callMsg = NoCall
    /\ callRule = NoRule
    /\ IdleRegs
    /\ IdleRaw
    /\ IdleSer
    /\ IdleLater

\* rule_engine.find_response(r)
find_response_call(r) ==
    /\ rules # <<>>
    /\ callReq' = [made |-> TRUE, v |-> r]
    /\ callRes' = find_response(rules, r)
    /\ UNCHANGED <<mgrVars, rules, buffer, connVars, frameVars, yrules, callMsg,
                   callRule, regVars, rawVars>>
    /\ UNCHANGED <<serVars, laterVars>>

\* await rules.get_response(m)
get_response_call(m) ==
    /\ yrules # <<>>
    /\ callMsg' = [made |-> TRUE, v |-> m]
    /\ callRule' = get_response(yrules, m)
    /\ UNCHANGED <<mgrVars, rules, buffer, connVars, frameVars, yrules, callReq,
                   callRes, regVars, rawVars>>
    /\ UNCHANGED <<serVars, laterVars>>

NextRules ==
    \/ \E r \in Requests : find_response_call(r)
    \/ \E m \in Texts : get_response_call(m)

SpecRules == InitRules /\ [][NextRules]_vars

----------------------------------------------------------------------------
(* The register store of RuleEngine. registers maps each configured        *)
(* register type to a function from the addresses that hold a value to     *)
(* that value.                                                             *)

\* registers[current_addr] if current_addr in registers, else 0
value_or_hole(rt, addr) == IF addr \in DOMAIN rt THEN rt[addr] ELSE -1
value_at(rt, addr) == IF addr \in DOMAIN rt THEN rt[addr] ELSE 0

None == [some |-> FALSE]

\* RuleEngine.read_registers
read_registers(regs, t, address, count) ==
    IF t \notin DOMAIN regs THEN None
    ELSE IF address < 0 \/ count <= 0 THEN None
    ELSE [some |-> TRUE,
          values |-> [i \in 1..count |-> value_at(regs[t], address + i - 1)]]

\* What read_registers leaves in self.registers: the loop appends a stored
\* value or a 0 to the list it returns and assigns to no register.
\* (registers_filled: the loop storing the 0 it reports for a missing address)
registers_filled(regs, t, address, count) ==
    IF ~read_registers(regs, t, address, count).some THEN regs
    ELSE [regs EXCEPT ![t] =
             [x \in DOMAIN regs[t] \cup address..(address + count - 1) |->
                 value_at(regs[t], x)]]
registers_read(regs, t, address, count) == regs

\* self.registers[register_type][address] = value
store_alone(rt, address, value) == [x \in {address} |-> value]
store(rt, address, value) ==
    [x \in DOMAIN rt \cup {address} |-> IF x = address THEN value ELSE rt[x]]

\* (write_register making the register type it does not find:
\* self.registers.setdefault(register_type, {})[address] = value)
write_register_creates(regs, t, address, value) ==
    IF address < 0 THEN [ok |-> FALSE, regs |-> regs]
    ELSE [ok |-> TRUE,
          regs |-> [x \in DOMAIN regs \cup {t} |->
                      IF x = t
                      THEN store(IF t \in DOMAIN regs THEN regs[t] ELSE <<>>,
                                 address, value)
                      ELSE regs[x]]]

\* RuleEngine.write_register: what it returns and the registers it leaves.
write_register(regs, t, address, value) ==
    IF t \notin DOMAIN regs THEN [ok |-> FALSE, regs |-> regs]
    ELSE IF address < 0 THEN [ok |-> FALSE, regs |-> regs]
    ELSE [ok |-> TRUE,
          regs |-> [regs EXCEPT ![t] = store(regs[t], address, value)]]

----------------------------------------------------------------------------
(* SpecRegs: one RuleEngine built with a registers configuration, and      *)
(* calls of read_registers and write_register; the methods are synchronous *)
(* so each call is one step.                                               *)

RegTypes == {"holding", "input"}

\* The value of the next write: every write writes a value of its own.
NextValue == Len(written) + 1

Addresses == -1..MaxAddr

\* registers_config: none, one type with a value at address 1, two types.
RegisterConfigs ==
    { <<>>,
      [t \in {"holding"} |-> [a \in {1} |-> 7]],
      [t \in {"holding", "input"} |->
          IF t = "holding" THEN [a \in {0, 1} |-> 7] ELSE <<>>] }

NoRead == [made |-> FALSE]

InitRegs ==
    /\ IdleMgr
    /\ IdleHandler
    /\ IdleConn
    /\ IdleFrame
    /\ IdleMatch
    /\ IdleRaw
    /\ IdleSer
    /\ IdleLater
    /\ registers \in RegisterConfigs
    /\ written = <<>>
    /\ readRes = NoRead

read_registers_call(t, address, count) ==
    /\ readRes' = [made |-> TRUE, t |-> t, address |-> address, count |-> count,
                   ret |-> read_registers(registers, t, address, count)]
    /\ registers' = registers_read(registers, t, address, count)
    /\ UNCHANGED <<mgrVars, rules, buffer, connVars, frameVars, matchVars,
                   written, rawVars>>
    /\ UNCHANGED <<serVars, laterVars>>

write_register_call(t, address, value) ==
    /\ Len(written) < MaxWrites
    /\ registers' = write_register(registers, t, address, value).regs
    /\ written' = Append(written,
                         [t |-> t, address |-> address, value |-> value,
                          ok |-> write_register(registers, t, address, value).ok])
    /\ readRes' = NoRead
    /\ UNCHANGED <<mgrVars, rules, buffer, connVars, frameVars, matchVars, rawVars>>
    /\ UNCHANGED <<serVars, laterVars>>

NextRegs ==
    \/ \E t \in RegTypes, a \in Addresses, c \in 0..MaxCount :
           read_registers_call(t, a, c)
    \/ \E t \in RegTypes, a \in Addresses : write_register_call(t, a, NextValue)

SpecRegs == InitRegs /\ [][NextRegs]_vars

----------------------------------------------------------------------------
(* RawProtocolHandler: every chunk of bytes it is given is one request. A  *)
(* result is [st, some, bs, m]: st "done" with the bytes returned (some) or *)
(* None, "raise" when the exception leaves handle_data, "sleep" before the *)
(* delay of the match m.                                                   *)

RawNone == [st |-> "done", some |-> FALSE, bs |-> <<>>, m |-> NoMatch]

\* received_data.decode(self.encoding): a byte outside the encoding raises
\* UnicodeDecodeError.
decodable(cs) == \A i \in DOMAIN cs : cs[i] \in Chars

\* The else branch of if match: no matching rule, return None.
raw_no_match_error(cs) == [st |-> "done", some |-> TRUE, bs |-> <<"?">>, m |-> NoMatch]
raw_no_match(cs) == RawNone

\* handle_data from the encoding of the matched response to its end: the
\* encoding of a str is outside any try, that of another value inside one.
raw_after_delay(m) ==
    LET e == encode_response(m.response)
    IN CASE e.k = "raise" -> [st |-> "raise", some |-> FALSE, bs |-> <<>>, m |-> m]
         [] e.k = "bytes" -> [st |-> "done", some |-> TRUE, bs |-> e.s, m |-> m]
         [] OTHER -> [st |-> "done", some |-> FALSE, bs |-> <<>>, m |-> m]

\* RawProtocolHandler.handle_data up to its first await or to its end.
raw_handle_data(rs, cs) ==
    IF ~decodable(cs) THEN RawNone
    ELSE LET m == find_response(rs, Str(cs))
         IN IF ~m.found THEN raw_no_match(cs)
            ELSE IF m.delay > 0
            THEN [st |-> "sleep", some |-> FALSE, bs |-> <<>>, m |-> m]
            ELSE raw_after_delay(m)

\* The same with the delay waited out.
raw_handle_data_slept(rs, cs) ==
    IF raw_handle_data(rs, cs).st = "sleep"
    THEN raw_after_delay(raw_handle_data(rs, cs).m)
    ELSE raw_handle_data(rs, cs)

\* exact "P" answered at once, prefix "X" answered after a delay.
RawRules ==
    << [type |-> "exact", val |-> Str(<<"P">>), resp |-> RStr(<<"O">>),
        delay |-> 0, compiled |-> FALSE],
       [type |-> "prefix", val |-> Str(<<"X">>), resp |-> RBytes(<<"E">>),
        delay |-> 1, compiled |-> FALSE] >>

\* prefix "X" with a str response the encoding cannot encode, and exact "P".
RawBadRules ==
    << [type |-> "prefix", val |-> Str(<<"X">>),
        resp |-> [rep |-> "str", s |-> <<"U">>, enc |-> FALSE],
        delay |-> 1, compiled |-> FALSE],
       [type |-> "exact", val |-> Str(<<"P">>), resp |-> RStr(<<"O">>),
        delay |-> 0, compiled |-> FALSE] >>

----------------------------------------------------------------------------
(* SpecRaw: NumConns clients connected to one TCP device whose protocol is *)
(* the raw handler; one _handle_client task per connection.                *)

\* What a client sends: "Z" is a byte the handler's encoding cannot decode.
RawStreams == {<<"X", "P">>, <<"n", "P">>, <<"Z", "P">>}

RawRuleSets == {RawRules, RawBadRules}

\* The connections whose handler call is waiting out a delay, with what they
\* had left to read when it began.
Sleeping == {<<c, Len(toSend[c])>> : c \in {d \in Conns : hpc[d] = "sleep"}}

InitRaw ==
    /\ IdleMgr
    /\ IdleFrame
    /\ IdleMatch
    /\ IdleRegs
    /\ IdleSer
    /\ IdleLater
    /\ rules \in RawRuleSets
    /\ buffer = <<>>
    /\ \E ss \in [Conns -> RawStreams] :
           toSend = [c \in Conns |-> Wire(ss[c], c)]
    /\ hpc = [c \in Conns |-> "read"]
    /\ parts = <<>>
    /\ pend = [c \in Conns |-> NoPend]
    /\ out = [c \in Conns |-> <<>>]
    /\ frames = <<>>
    /\ conn = [c \in Conns |-> "open"]
    /\ served = [c \in Conns |-> <<>>]

\* if response: writer.write(response)
truthy(r) == r.some /\ r.bs # <<>>

\* The handler call of connection c for the request cmd has ended in r: the
\* response is written if there is one, an exception is logged; the loop of
\* _handle_client goes on either way.
raw_call_ends(c, cmd, r, during) ==
    /\ hpc' = [hpc EXCEPT ![c] = "read"]
    /\ pend' = [pend EXCEPT ![c] = NoPend]
    /\ out' = [out EXCEPT ![c] =
                 IF r.st = "done" /\ truthy(r)
                 THEN Append(@, [frame |-> cmd, resp |-> r.bs]) ELSE @]
    /\ served' = [served EXCEPT ![c] =
                    Append(@, [req |-> cmd, matched |-> r.m.found,
                               raised |-> r.st = "raise",
                               wrote |-> IF r.st = "done" /\ truthy(r)
                                         THEN r.bs ELSE <<>>,
                               during |-> during])]

\* The task of connection c may go on: it is not inside a handler call.
may_read_alone(c) == \A d \in Conns : hpc[d] = "read"
may_read(c) == hpc[c] = "read"

\* _handle_client of connection c: reader.read returns the next n bytes and
\* the handler is called with them.
raw_client_read(c, n) ==
    /\ conn[c] = "open"
    /\ may_read(c)
    /\ n <= Len(toSend[c])
    /\ toSend' = [toSend EXCEPT ![c] = SubSeq(@, n + 1, Len(@))]
    /\ LET cmd == SubSeq(toSend[c], 1, n)
           r == raw_handle_data(rules, Chr(cmd))
       IN IF r.st = "sleep"
          THEN /\ hpc' = [hpc EXCEPT ![c] = "sleep"]
               /\ pend' = [pend EXCEPT ![c] =
                             [m |-> r.m, cmd |-> cmd, during |-> Sleeping]]
               /\ UNCHANGED <<out, served>>
          ELSE raw_call_ends(c, cmd, r, Sleeping)
    /\ UNCHANGED <<mgrVars, rules, buffer, parts, frames, frameVars, matchVars,
                   regVars, conn>>
    /\ UNCHANGED <<serVars, laterVars>>

\* The sleep of connection c's handler call is over.
raw_wake(c) ==
    /\ hpc[c] = "sleep"
    /\ raw_call_ends(c, pend[c].cmd, raw_after_delay(pend[c].m), pend[c].during)
    /\ UNCHANGED <<mgrVars, rules, buffer, toSend, parts, frames, frameVars,
                   matchVars, regVars, conn>>
    /\ UNCHANGED <<serVars, laterVars>>

\* The client of connection c has sent everything and closes: reader.read
\* returns b"", the loop ends and the writer is closed.
raw_client_eof(c) ==
    /\ conn[c] = "open"
    /\ may_read(c)
    /\ toSend[c] = <<>>
    /\ conn' = [conn EXCEPT ![c] = "closed"]
    /\ UNCHANGED <<mgrVars, rules, buffer, connVars, frameVars, matchVars,
                   regVars, served>>
    /\ UNCHANGED <<serVars, laterVars>>

NextRaw ==
    \/ \E c \in Conns, n \in 1..MaxLen : raw_client_read(c, n)
    \/ \E c \in Conns : raw_wake(c)
    \/ \E c \in Conns : raw_client_eof(c)

SpecRaw == InitRaw /\ [][NextRaw]_vars

(* SpecSerial: one serial device whose protocol is the raw handler. The    *)
(* single _listen task reads the port, splits one message off its buffer   *)
(* at the terminator, awaits the handler and sends the response; start()   *)
(* and stop() are called from outside the task. SpecSerialLive adds the    *)
(* fairness of the event loop.                                             *)

\* self._terminator, without which no message is complete.
serial_terminator == <<"n">>

\* What the peer sends over the life of the interface.
SerialStreams == [1..MaxLen -> Chars]

InitSerial ==
    /\ IdleMgr
    /\ IdleConn
    /\ IdleFrame
    /\ IdleMatch
    /\ IdleRegs
    /\ IdleRaw
    /\ IdleDelay
    /\ IdleTcpState
    /\ IdleMod
    /\ IdleLast
    /\ iface = "serial"
    /\ rules \in RawRuleSets
    /\ buffer = <<>>
    /\ sport = "closed"
    /\ sbuf = <<>>
    /\ sIn \in SerialStreams
    /\ sOut = <<>>
    /\ spc = "listen"
    /\ sCause = "none"
    /\ sStop = FALSE
    /\ sTask = "none"
    /\ stopPc = "none"
    /\ sAgain = FALSE

\* What the actions of the serial interface leave alone.
serialFrame == <<mgrVars, rules, buffer, connVars, frameVars, matchVars,
                 regVars, rawVars, laterVars>>

\* self._stop_event.is_set()
stop_never == FALSE
stop_requested == sStop

\* The listen task is running and the caller's stop() has not cancelled it.
listening == sTask = "running"

\* SerialInterface.start: the stop event is cleared and the port opened; the
\* listen task is created if that succeeded, ConnectionError is raised if not.
serial_start(ok) ==
    /\ sTask # "running"
    /\ stopPc # "waiting"
    /\ sStop' = FALSE
    /\ IF ok
       THEN /\ sport' = "open"
            /\ sTask' = "running"
            /\ spc' = "listen"
            /\ sbuf' = <<>>
       ELSE UNCHANGED <<sport, sTask, spc, sbuf>>
    /\ stopPc' = "none"
    /\ sAgain' = FALSE
    /\ UNCHANGED <<sIn, sOut, sCause>>
    /\ UNCHANGED serialFrame

\* message, buffer = buffer.split(self._terminator, 1)
serial_split(buf) ==
    LET i == find(buf, serial_terminator)
    IN [message |-> SubSeq(buf, 1, i),
        rest |-> SubSeq(buf, i + Len(serial_terminator) + 1, Len(buf))]

\* The except clauses of the loop: await self._close_port(), then
\* await asyncio.sleep(self._reconnect_delay).
except_closes(cause) ==
    /\ sport' = "closed"
    /\ spc' = "backoff"
    /\ sCause' = cause

\* SerialInterface.send: the response and the terminator are written, or the
\* write fails and the port is closed.
send(message, data, ok) ==
    IF ok
    THEN /\ sOut' = Append(sOut, [req |-> message, resp |-> data \o serial_terminator])
         /\ sport' = sport
         /\ spc' = "listen"
         /\ UNCHANGED sCause
    ELSE /\ sport' = "closed"
         /\ spc' = "listen"
         /\ UNCHANGED <<sOut, sCause>>

\* The loop is about to read: at its top with the port open and no stop
\* requested, or just after it has reopened the port.
about_to_read ==
    /\ listening
    /\ \/ spc = "listen" /\ ~stop_requested /\ sport = "open"
       \/ spc = "opened"

\* One turn of the loop of _listen with the port open: read_all returns the
\* next n bytes; they are appended to the buffer, and if the terminator is
\* in it one message is split off and handled.
serial_read(n, ok) ==
    /\ about_to_read
    /\ n \in 1..Len(sIn)
    /\ sIn' = SubSeq(sIn, n + 1, Len(sIn))
    /\ LET b == sbuf \o SubSeq(sIn, 1, n)
       IN IF find(b, serial_terminator) < 0
          THEN /\ sbuf' = b
               /\ ok
               /\ spc' = "listen"
               /\ UNCHANGED <<sport, sOut, sCause>>
          ELSE LET sp == serial_split(b)
                   r == raw_handle_data_slept(rules, sp.message)
               IN /\ sbuf' = sp.rest
                  /\ IF r.st = "raise"
                     THEN /\ ok
                          /\ except_closes("handler")
                          /\ UNCHANGED sOut
                     ELSE IF truthy(r)
                     THEN send(sp.message, r.bs, ok)
                     ELSE /\ ok
                          /\ spc' = "listen"
                          /\ UNCHANGED <<sport, sOut, sCause>>
    /\ UNCHANGED <<sStop, sTask, stopPc, sAgain>>
    /\ UNCHANGED serialFrame

\* read_all finds nothing after the port was reopened: the loop sleeps 0.05 s
\* and comes back to its top.
serial_read_nothing ==
    /\ listening
    /\ spc = "opened"
    /\ spc' = "listen"
    /\ UNCHANGED <<sport, sbuf, sIn, sOut, sCause, sStop, sTask, stopPc, sAgain>>
    /\ UNCHANGED serialFrame

\* read_all raises serial.SerialException: the port is closed and the
\* listener sleeps self._reconnect_delay.
serial_error ==
    /\ about_to_read
    /\ except_closes("io")
    /\ UNCHANGED <<sbuf, sIn, sOut, sStop, sTask, stopPc, sAgain>>
    /\ UNCHANGED serialFrame

\* The sleep of self._reconnect_delay is over: back to the top of the loop.
serial_backoff_over ==
    /\ listening
    /\ spc \in {"backoff", "retry"}
    /\ spc' = "listen"
    /\ UNCHANGED <<sport, sbuf, sIn, sOut, sCause, sStop, sTask, stopPc, sAgain>>
    /\ UNCHANGED serialFrame

\* The top of the loop with no stop requested finds the port closed:
\* _close_port and then _open_port, which hands serial.Serial to a thread.
serial_reconnect ==
    /\ listening
    /\ spc = "listen"
    /\ ~stop_requested
    /\ sport = "closed"
    /\ spc' = "opening"
    /\ UNCHANGED <<sport, sbuf, sIn, sOut, sCause, sStop, sTask, stopPc, sAgain>>
    /\ UNCHANGED serialFrame

\* _open_port has opened the port: reset_input_buffer discards the k bytes
\* that arrived meanwhile, and the loop goes on to read.
serial_reopen(k) ==
    /\ listening
    /\ spc = "opening"
    /\ k \in 0..Len(sIn)
    /\ sport' = "open"
    /\ spc' = "opened"
    /\ sIn' = SubSeq(sIn, k + 1, Len(sIn))
    /\ UNCHANGED <<sbuf, sOut, sCause, sStop, sTask, stopPc, sAgain>>
    /\ UNCHANGED serialFrame

\* _open_port fails: the listener sleeps self._reconnect_delay and tries again.
serial_reopen_fails ==
    /\ listening
    /\ spc = "opening"
    /\ spc' = "retry"
    /\ UNCHANGED <<sport, sbuf, sIn, sOut, sCause, sStop, sTask, stopPc, sAgain>>
    /\ UNCHANGED serialFrame

\* while not self._stop_event.is_set(): the loop ends at its top.
serial_listen_exit ==
    /\ listening
    /\ spc = "listen"
    /\ stop_requested
    /\ sTask' = "done"
    /\ UNCHANGED <<sport, sbuf, sIn, sOut, spc, sCause, sStop, stopPc, sAgain>>
    /\ UNCHANGED serialFrame

\* await self._close_port(): self._serial_port = None, the port closed.
close_port_skipped == sport' = sport
close_port == sport' = "closed"

\* SerialInterface.stop up to its wait for the listen task: the stop event is
\* set; with no task, or a task that is done, the port is closed at once.
serial_stop_call ==
    /\ stopPc \in {"none", "returned"}
    /\ sStop' = TRUE
    /\ sAgain' = (sTask # "running")
    /\ IF sTask = "running"
       THEN /\ stopPc' = "waiting"
            /\ UNCHANGED sport
       ELSE /\ stopPc' = "returned"
            /\ close_port
    /\ UNCHANGED <<sbuf, sIn, sOut, spc, sCause, sTask>>
    /\ UNCHANGED serialFrame

\* asyncio.wait_for(listen_task, timeout=2.0) times out: the task is
\* cancelled, and CancelledError ends it wherever it is waiting.
serial_stop_timeout ==
    /\ stopPc = "waiting"
    /\ sTask = "running"
    /\ sTask' = "done"
    /\ UNCHANGED <<sport, sbuf, sIn, sOut, spc, sCause, sStop, stopPc, sAgain>>
    /\ UNCHANGED serialFrame

\* The listen task has ended: stop() closes the port and returns.
serial_stop_return ==
    /\ stopPc = "waiting"
    /\ sTask = "done"
    /\ close_port
    /\ stopPc' = "returned"
    /\ UNCHANGED <<sbuf, sIn, sOut, spc, sCause, sStop, sTask, sAgain>>
    /\ UNCHANGED serialFrame

NextSerial ==
    \/ \E ok \in BOOLEAN : serial_start(ok)
    \/ \E n \in 1..MaxLen, ok \in BOOLEAN : serial_read(n, ok)
    \/ serial_read_nothing
    \/ serial_error
    \/ serial_backoff_over
    \/ serial_reconnect
    \/ \E k \in 0..MaxLen : serial_reopen(k)
    \/ serial_reopen_fails
    \/ serial_listen_exit
    \/ serial_stop_call
    \/ serial_stop_timeout
    \/ serial_stop_return

SpecSerial == InitSerial /\ [][NextSerial]_vars

\* The event loop runs every task that is ready: the listen task takes its
\* next step, a sleep ends, the timeout of stop() elapses, stop() goes on; a
\* port that can be opened again and again is opened in the end.
SpecSerialLive ==
    /\ InitSerial
    /\ [][NextSerial]_vars
    /\ WF_vars(serial_backoff_over)
    /\ WF_vars(serial_reconnect)
    /\ WF_vars(\E k \in 0..MaxLen : serial_reopen(k) \/ serial_reopen_fails)
    /\ SF_vars(\E k \in 0..MaxLen : serial_reopen(k))
    /\ WF_vars(serial_listen_exit)
    /\ WF_vars(serial_stop_timeout)
    /\ WF_vars(serial_stop_return)

----------------------------------------------------------------------------
(* SpecDelay: one server answering requests with the delays of its rules,  *)
(* on the event loop's clock. The server is DTEEmulator.serve_once over a  *)
(* YamlRuleEngine, or ScpiProtocolHandler.handle_data over a RuleEngine.   *)
(* The clock ticks in milliseconds, and the delay of a rule of either      *)
(* engine is given in milliseconds here.                                   *)

\* await asyncio.sleep(d): the coroutine goes on once the loop's clock has
\* reached the time of the call plus d.
slept_at_once(until) == TRUE
slept(until) == now >= until

\* asyncio.sleep(rule.delay_ms / 1000): that many seconds is delay_ms ticks.
sleep_ms(delay_ms) == (delay_ms * 1000) \div 1000

\* self.rx_end and self.tx_end of the emulator.
rx_end == <<"n">>
tx_end == <<"n">>

\* "P" answered at once, "X" after two milliseconds; and both delayed. The
\* rule of "X" in the first list has a terminator of its own, the rule of
\* "P" in the second has the empty one: tx_end: "".
DelayYamlRules ==
    << [is_regex |-> FALSE, val |-> [s |-> <<"P">>, dollar |-> FALSE],
        response |-> <<"1">>, delay_ms |-> 0],
       [is_regex |-> FALSE, val |-> [s |-> <<"X">>, dollar |-> FALSE],
        response |-> <<"2">>, delay_ms |-> 2, tx_end |-> <<"t">>] >>
DelayYamlRulesBoth ==
    << [is_regex |-> FALSE, val |-> [s |-> <<"P">>, dollar |-> FALSE],
        response |-> <<"1">>, delay_ms |-> 1, tx_end |-> <<>>],
       [is_regex |-> FALSE, val |-> [s |-> <<"X">>, dollar |-> FALSE],
        response |-> <<"2">>, delay_ms |-> 1] >>

\* The same for the handler, whose commands arrive as bytes with the
\* terminator attached.
DelayRules ==
    << [type |-> "exact", val |-> Bytes(<<"P", "n">>), resp |-> RBytes(<<"O">>),
        delay |-> 0, compiled |-> FALSE],
       [type |-> "prefix", val |-> Bytes(<<"X">>), resp |-> RStr(<<"E">>),
        delay |-> 2, compiled |-> FALSE] >>
DelayRulesBoth ==
    << [type |-> "exact", val |-> Bytes(<<"P", "n">>), resp |-> RBytes(<<"O">>),
        delay |-> 1, compiled |-> FALSE],
       [type |-> "prefix", val |-> Bytes(<<"X">>), resp |-> RStr(<<"E">>),
        delay |-> 1, compiled |-> FALSE] >>

DelayStreams == [1..MaxLen -> Chars]

InitDelay ==
    /\ IdleMgr
    /\ IdleConn
    /\ IdleFrame
    /\ IdleRegs
    /\ IdleRaw
    /\ IdleSer
    /\ IdleTcp
    /\ IdleMod
    /\ IdleLast
    /\ callReq = <<>>
    /\ callRes = <<>>
    /\ callMsg = <<>>
    /\ callRule = <<>>
    /\ dKind \in {"dte", "scpi"}
    /\ IF dKind = "dte"
       THEN rules = <<>> /\ yrules \in {DelayYamlRules, DelayYamlRulesBoth}
       ELSE yrules = <<>> /\ rules \in {DelayRules, DelayRulesBoth}
    /\ buffer = <<>>
    /\ now = 0
    /\ \E cs \in DelayStreams : dIn = Wire(cs, 1)
    /\ dpc = "read"
    /\ dPend = <<>>
    /\ dParts = <<>>
    /\ dOut = <<>>
    /\ dMatched = <<>>

\* What SpecDelay leaves alone.
delayFrame == <<mgrVars, connVars, frameVars, callReq, callRes, callMsg, callRule,
                regVars, rawVars, serVars, tcpVars, modVars, lastVars>>

\* The loop's clock advances.
tick ==
    /\ now < MaxTime
    /\ now' = now + 1
    /\ UNCHANGED <<rules, yrules, buffer, dKind, dIn, dpc, dPend, dParts, dOut,
                   dMatched>>
    /\ UNCHANGED delayFrame

\* The response at position i of ps, with the delay of the rule that gave it,
\* when that rule matched and when the response was made: the first response
\* made after a sleep is that of the match that slept.
stamp(ps, old, i, woke) ==
    IF i <= Len(old) THEN old[i]
    ELSE [frame |-> ps[i].frame, resp |-> ps[i].resp,
          delay |-> find_response(rules, Bytes(Chr(ps[i].frame))).delay,
          matchedAt |-> IF woke /\ i = Len(old) + 1 THEN dPend.t0 ELSE now,
          producedAt |-> now]

written_at(e, t) ==
    [frame |-> e.frame, resp |-> e.resp, delay |-> e.delay,
     matchedAt |-> e.matchedAt, producedAt |-> e.producedAt, wroteAt |-> t]

\* handle_data has run up to r: it sleeps, or it has returned and what it
\* returned is written.
scpi_step(r, woke) ==
    LET st == [i \in 1..Len(r.ps) |-> stamp(r.ps, dParts, i, woke)]
    IN /\ buffer' = r.buf
       /\ IF r.st = "sleep"
          THEN /\ dpc' = "sleep"
               /\ dPend' = [m |-> r.m, cmd |-> r.cmd, t0 |-> now,
                            until |-> now + r.m.delay]
               /\ dParts' = st
               /\ UNCHANGED dOut
          ELSE /\ dpc' = "read"
               /\ dPend' = <<>>
               /\ dParts' = <<>>
               /\ dOut' = IF response_of(r).some /\ response_of(r).bs # <<>>
                          THEN dOut \o [i \in 1..Len(st) |-> written_at(st[i], now)]
                          ELSE dOut

\* response_parts of the call in progress.
response_parts == [i \in DOMAIN dParts |-> [frame |-> dParts[i].frame, resp |-> dParts[i].resp]]

\* The handler is called with the next n bytes.
scpi_read(n) ==
    /\ dKind = "scpi"
    /\ dpc = "read"
    /\ n \in 1..Len(dIn)
    /\ dIn' = SubSeq(dIn, n + 1, Len(dIn))
    /\ scpi_step(drain(rules, extend(buffer, SubSeq(dIn, 1, n)), <<>>, <<>>), FALSE)
    /\ UNCHANGED <<rules, yrules, now, dKind, dMatched>>
    /\ UNCHANGED delayFrame

\* The sleep of handle_data is over: the response of the match is encoded and
\* the loop goes on.
scpi_wake ==
    /\ dKind = "scpi"
    /\ dpc = "sleep"
    /\ slept(dPend.until)
    /\ scpi_step(after_delay(rules, buffer, response_parts, <<>>, dPend.m, dPend.cmd),
                 encode_response(dPend.m.response).k = "bytes")
    /\ UNCHANGED <<rules, yrules, now, dKind, dIn, dMatched>>
    /\ UNCHANGED delayFrame

\* rule.tx_end or self.tx_end.decode(): Python's "or" gives its right side
\* when the left one is None or the empty string.
or_else(rule_tx_end, default) ==
    IF rule_tx_end.some /\ rule_tx_end.s # <<>> THEN rule_tx_end.s ELSE default

\* await self.transport.write(rule.response.encode() + terminator)
transport_write(msg, rule, t0) ==
    dOut' = Append(dOut, [frame |-> msg,
                          resp |-> rule.response \o or_else(rule.tx_end, tx_end),
                          delay |-> rule.delay_ms, matchedAt |-> t0,
                          producedAt |-> now, wroteAt |-> now])

\* DTEEmulator.serve_once up to its sleep or its end: a message is read up to
\* the terminator and the rule engine is asked for its rule.
serve_once ==
    /\ dKind = "dte"
    /\ dpc = "read"
    /\ find(Chr(dIn), rx_end) >= 0
    /\ LET t == find(Chr(dIn), rx_end)
           msg == SubSeq(dIn, 1, t + Len(rx_end))
           rule == get_response(yrules, rstrip(Chr(msg)))
       IN /\ dIn' = SubSeq(dIn, t + Len(rx_end) + 1, Len(dIn))
          /\ dMatched' = IF rule.found THEN Append(dMatched, msg) ELSE dMatched
          /\ IF ~rule.found
             THEN UNCHANGED <<dpc, dPend, dOut>>
             ELSE IF rule.delay_ms > 0
             THEN /\ dpc' = "sleep"
                  /\ dPend' = [m |-> rule, cmd |-> msg, t0 |-> now,
                               until |-> now + sleep_ms(rule.delay_ms)]
                  /\ UNCHANGED dOut
             ELSE /\ transport_write(msg, rule, now)
                  /\ UNCHANGED <<dpc, dPend>>
    /\ UNCHANGED <<rules, yrules, buffer, now, dKind, dParts>>
    /\ UNCHANGED delayFrame

\* The sleep of serve_once is over: the response is written.
serve_once_wake ==
    /\ dKind = "dte"
    /\ dpc = "sleep"
    /\ slept(dPend.until)
    /\ transport_write(dPend.cmd, dPend.m, dPend.t0)
    /\ dpc' = "read"
    /\ dPend' = <<>>
    /\ UNCHANGED <<rules, yrules, buffer, now, dKind, dIn, dParts, dMatched>>
    /\ UNCHANGED delayFrame

NextDelay ==
    \/ tick
    \/ \E n \in 1..MaxLen : scpi_read(n)
    \/ scpi_wake
    \/ serve_once
    \/ serve_once_wake

SpecDelay == InitDelay /\ [][NextDelay]_vars

----------------------------------------------------------------------------
(* SpecTcp: the lifecycle of one TcpServerInterface: start, the accepted   *)
(* connections and their _handle_client tasks, the broadcast send() and    *)
(* stop(). Requests are not told apart here: a handler call either returns  *)
(* at once or waits out a delay. SpecTcpLive adds the fairness of the      *)
(* event loop.                                                             *)

NoSend == [active |-> FALSE]

InitTcp ==
    /\ IdleMgr
    /\ IdleHandler
    /\ IdleConn
    /\ IdleFrame
    /\ IdleMatch
    /\ IdleRegs
    /\ IdleRaw
    /\ IdleSer
    /\ IdleDelay
    /\ IdleMod
    /\ IdleLast
    /\ iface = "tcp"
    /\ tAgain = FALSE
    /\ tServer = "none"
    /\ tServerTask = "none"
    /\ tWriters = {}
    /\ tLock = "free"
    /\ tConn = [c \in Conns |-> "none"]
    /\ tClosing = {}
    /\ tSend = NoSend
    /\ tStopPc = "none"

\* What the actions of the TCP interface leave alone.
tcpFrame == <<mgrVars, rules, buffer, connVars, frameVars, matchVars, regVars,
              rawVars, serVars, delayVars, modVars, lastVars, iface>>

\* self._writers_lock can be taken by a caller that comes after the client
\* tasks already waiting for it.
lock_free == tLock = "free" /\ \A c \in Conns : tConn[c] # "accepted"

\* stop() is at one of its two "async with self._writers_lock": the lock of
\* asyncio is fair, so whoever asks for it later gets it after stop().
stop_queued == tStopPc \in {"lock1", "lock2"}

\* The caller of stop() is inside it.
stopping == tStopPc \in {"wait_server", "lock1", "wait_clients", "lock2"}

\* TcpServerInterface.start: nothing if self._server is set; else the server
\* is created and serve_forever() made a task, or start_server raises and
\* both fields are None.
tcp_start(ok) ==
    /\ ~stopping
    /\ tServer = "none"
    /\ IF ok
       THEN tServer' = "listening" /\ tServerTask' = "running"
       ELSE tServer' = "none" /\ tServerTask' = "none"
    /\ tStopPc' = "none"
    /\ tAgain' = FALSE
    /\ UNCHANGED <<tWriters, tLock, tConn, tClosing, tSend>>
    /\ UNCHANGED tcpFrame

\* The server accepts client c and its _handle_client task begins: the
\* writer is added to self._writers under the lock, for which the task waits
\* while send() holds it.
tcp_accept(c) ==
    /\ tServer = "listening"
    /\ tConn[c] = "none"
    /\ IF tLock = "free"
       THEN /\ tWriters' = tWriters \cup {c}
            /\ tConn' = [tConn EXCEPT ![c] = "running"]
       ELSE /\ tConn' = [tConn EXCEPT ![c] = "accepted"]
            /\ UNCHANGED tWriters
    /\ UNCHANGED <<tServer, tServerTask, tLock, tClosing, tSend, tStopPc, tAgain>>
    /\ UNCHANGED tcpFrame

\* The lock is free again: async with self._writers_lock:
\* self._writers.add(writer)
tcp_client_add(c) ==
    /\ tConn[c] = "accepted"
    /\ tLock = "free"
    /\ tWriters' = tWriters \cup {c}
    /\ tConn' = [tConn EXCEPT ![c] = "running"]
    /\ UNCHANGED <<tServer, tServerTask, tLock, tClosing, tSend, tStopPc, tAgain>>
    /\ UNCHANGED tcpFrame

\* reader.read returns data and the handler is called; it waits out the
\* delay of the rule it matched. (A call that returns at once leaves the
\* connection as it was.)
tcp_client_request(c) ==
    /\ tConn[c] = "running"
    /\ c \notin tClosing
    /\ tConn' = [tConn EXCEPT ![c] = "handling"]
    /\ UNCHANGED <<tServer, tServerTask, tWriters, tLock, tClosing, tSend, tStopPc, tAgain>>
    /\ UNCHANGED tcpFrame

\* The handler call of client c returns: the response is written, or the
\* write to a closed writer fails and is logged; the loop reads again.
tcp_client_response(c) ==
    /\ tConn[c] = "handling"
    /\ tConn' = [tConn EXCEPT ![c] = "running"]
    /\ UNCHANGED <<tServer, tServerTask, tWriters, tLock, tClosing, tSend, tStopPc, tAgain>>
    /\ UNCHANGED tcpFrame

\* The loop of client c ends: reader.read returns b"" (the peer closed, or
\* the writer was closed), raises ConnectionError, or the task is cancelled
\* at one of its awaits. The finally clause is next.
tcp_client_loop_ends(c, cause) ==
    /\ \/ cause \in {"eof", "error"} /\ tConn[c] = "running"
       \/ cause = "cancelled" /\ tConn[c] \in {"running", "handling"}
    /\ tConn' = [tConn EXCEPT ![c] = "ending"]
    /\ UNCHANGED <<tServer, tServerTask, tWriters, tLock, tClosing, tSend, tStopPc, tAgain>>
    /\ UNCHANGED tcpFrame

\* finally: async with self._writers_lock: self._writers.discard(writer),
\* then the writer is closed.
tcp_client_discard(c) ==
    /\ tConn[c] = "ending"
    /\ tLock = "free"
    /\ tWriters' = tWriters \ {c}
    /\ tClosing' = tClosing \cup {c}
    /\ tConn' = [tConn EXCEPT ![c] = "ended"]
    /\ UNCHANGED <<tServer, tServerTask, tLock, tSend, tStopPc, tAgain>>
    /\ UNCHANGED tcpFrame

\* The writers send() gives the data to when the writes of fail raise: each
\* send_to_writer has its own try around write and drain.
delivered_unless_any_fails(valid, fail) == IF fail = {} THEN valid ELSE {}
delivered_to(valid, fail) == valid \ fail

\* send() up to its gather, with writers tracked (with none it returns at
\* once): the lock is taken and the data written to every tracked writer that
\* is not closing. The writes to fail raise, the clients in slow do not drain.
tcp_send(fail, slow) ==
    /\ lock_free
    /\ ~stop_queued
    /\ ~tSend.active
    /\ tWriters # {}
    /\ LET valid == tWriters \ tClosing
       IN /\ fail \subseteq valid
          /\ slow \subseteq valid \ fail
          /\ tSend' = [active |-> TRUE, before |-> tWriters, valid |-> valid,
                       failed |-> fail, waiting |-> slow,
                       delivered |-> delivered_to(valid, fail)]
    /\ tLock' = "send"
    /\ UNCHANGED <<tServer, tServerTask, tWriters, tConn, tClosing, tStopPc, tAgain>>
    /\ UNCHANGED tcpFrame

\* Client c drains its socket, or its connection is lost: the drain() of its
\* send_to_writer returns or raises.
tcp_send_drained(c) ==
    /\ tSend.active
    /\ c \in tSend.waiting
    /\ tSend' = [tSend EXCEPT !.waiting = @ \ {c}]
    /\ UNCHANGED <<tServer, tServerTask, tWriters, tLock, tConn, tClosing, tStopPc, tAgain>>
    /\ UNCHANGED tcpFrame

\* The gather of send() is complete: the lock is released.
tcp_send_return ==
    /\ tSend.active
    /\ tSend.waiting = {}
    /\ tLock' = "free"
    /\ tSend' = NoSend
    /\ UNCHANGED <<tServer, tServerTask, tWriters, tConn, tClosing, tStopPc, tAgain>>
    /\ UNCHANGED tcpFrame

\* stop() with neither server nor server task returns at once. Else, with a
\* server: self._server.close(), which also ends serve_forever(), and the
\* wait for wait_closed().
tcp_stop_call ==
    /\ tStopPc \in {"none", "returned"}
    /\ tAgain' = (tServer = "none")
    /\ IF tServer = "none" /\ tServerTask = "none"
       THEN tStopPc' = "returned" /\ UNCHANGED tServer
       ELSE IF tServer # "none"
       THEN tStopPc' = "wait_server" /\ tServer' = "closed"
       ELSE tStopPc' = "lock1" /\ UNCHANGED tServer
    /\ UNCHANGED <<tServerTask, tWriters, tLock, tConn, tClosing, tSend>>
    /\ UNCHANGED tcpFrame

\* finally: self._server = None
server_left_closed == "closed"
server_released == "none"

\* wait_closed() returns or its 5 s pass: self._server = None.
tcp_stop_server_closed ==
    /\ tStopPc = "wait_server"
    /\ tServer' = server_released
    /\ tStopPc' = "lock1"
    /\ UNCHANGED <<tServerTask, tWriters, tLock, tConn, tClosing, tSend, tAgain>>
    /\ UNCHANGED tcpFrame

\* async with self._writers_lock: writers_to_close = list(self._writers);
\* every one of them not closing is closed, and stop() waits for their
\* wait_closed(), 5 s at most each.
tcp_stop_close_writers ==
    /\ tStopPc = "lock1"
    /\ lock_free
    /\ tClosing' = tClosing \cup tWriters
    /\ tStopPc' = "wait_clients"
    /\ UNCHANGED <<tServer, tServerTask, tWriters, tLock, tConn, tSend, tAgain>>
    /\ UNCHANGED tcpFrame

\* The gather of the wait_closed() is complete. The server task, ended by
\* the close of the server, is done already and self._server_task is left
\* as it is, or it is cancelled and awaited here and the field set to None.
tcp_stop_clients_closed(already) ==
    /\ tStopPc = "wait_clients"
    /\ tServerTask' = IF tServerTask = "none" THEN "none"
                      ELSE IF already \/ tServerTask = "done" THEN "done" ELSE "none"
    /\ tStopPc' = "lock2"
    /\ UNCHANGED <<tServer, tWriters, tLock, tConn, tClosing, tSend, tAgain>>
    /\ UNCHANGED tcpFrame

\* async with self._writers_lock: self._writers.clear(); stop() returns.
tcp_stop_return ==
    /\ tStopPc = "lock2"
    /\ lock_free
    /\ tWriters' = {}
    /\ tStopPc' = "returned"
    /\ UNCHANGED <<tServer, tServerTask, tLock, tConn, tClosing, tSend, tAgain>>
    /\ UNCHANGED tcpFrame

NextTcp ==
    \/ \E ok \in BOOLEAN : tcp_start(ok)
    \/ \E c \in Conns : tcp_accept(c)
    \/ \E c \in Conns : tcp_client_add(c)
    \/ \E c \in Conns : tcp_client_request(c)
    \/ \E c \in Conns : tcp_client_response(c)
    \/ \E c \in Conns, cause \in {"eof", "error", "cancelled"} : tcp_client_loop_ends(c, cause)
    \/ \E c \in Conns : tcp_client_discard(c)
    \/ \E fail, slow \in SUBSET Conns : tcp_send(fail, slow)
    \/ \E c \in Conns : tcp_send_drained(c)
    \/ tcp_send_return
    \/ tcp_stop_call
    \/ tcp_stop_server_closed
    \/ tcp_stop_close_writers
    \/ \E already \in BOOLEAN : tcp_stop_clients_closed(already)
    \/ tcp_stop_return

SpecTcp == InitTcp /\ [][NextTcp]_vars

\* The event loop runs every task that is ready: the steps of stop() and of
\* the client tasks are taken, timeouts elapse, a handler's delay ends. A
\* client need never drain its socket.
SpecTcpLive ==
    /\ InitTcp
    /\ [][NextTcp]_vars
    /\ WF_vars(tcp_stop_server_closed)
    /\ WF_vars(tcp_stop_close_writers)
    /\ WF_vars(\E already \in BOOLEAN : tcp_stop_clients_closed(already))
    /\ WF_vars(tcp_stop_return)
    /\ WF_vars(tcp_send_return)
    /\ \A c \in Conns : WF_vars(tcp_client_add(c))
    /\ \A c \in Conns : WF_vars(tcp_client_response(c))
    /\ \A c \in Conns : WF_vars(tcp_client_discard(c))

----------------------------------------------------------------------------
(* SpecIface: one interface of either variant, a SerialInterface or a      *)
(* TcpServerInterface, with the calls made on it.                          *)

InitIface == InitSerial \/ InitTcp

NextIface ==
    \/ iface = "serial" /\ NextSerial
    \/ iface = "tcp" /\ NextTcp

SpecIface == InitIface /\ [][NextIface]_vars

----------------------------------------------------------------------------
----------------------------------------------------------------------------
(* SpecModbus: the devices of one manager whose configs hold registers.    *)
(* _create_protocol builds, for each device, a RuleEngine over the         *)
(* registers of the device's config. The Modbus TCP handler, whose context *)
(* would be made from that engine's registers and given to the server, is  *)
(* never built (instantiate): no device has a context, and a register is   *)
(* written through the engine (RuleEngine.write_register) alone. A value   *)
(* of the config is a cell [list, v]: the list [v, description], or the    *)
(* bare value v.                                                           *)

Devs == 1..NumDefs

\* The register types _create_context asks for.
StoreTypes == {"discrete_inputs", "coils", "holding_registers", "input_registers"}

\* The register types a Modbus request can write.
WritableTypes == {"coils", "holding_registers"}

ModbusAddrs == 0..1

cell(isList, v) == [list |-> isList, v |-> v]

\* The "registers" of a protocol config: absent, in the documented format
\* { addr: [value, description] }, or with a bare value and one type only.
ModbusConfigs ==
    { <<>>,
      [t \in {"coils", "holding_registers"} |->
          IF t = "coils" THEN [a \in {0} |-> cell(TRUE, 1)]
          ELSE [a \in {0, 1} |-> cell(TRUE, 7)]],
      [t \in {"holding_registers"} |-> [a \in {0} |-> cell(FALSE, 5)]] }

\* The dict object self.registers of device d's RuleEngine: the "registers"
\* of the device's own config, loaded from the device's own file, or a new
\* dict when the config has none.
registers_shared(d) == 1
registers_of(d) == d

\* _parse_registers: data[0] of a list, else 0 (False for bits).
parse_registers(registers_config, register_type) ==
    IF register_type \notin DOMAIN registers_config THEN <<>>
    ELSE [addr \in DOMAIN registers_config[register_type] |->
             IF registers_config[register_type][addr].list
             THEN registers_config[register_type][addr].v
             ELSE 0]

\* _create_context: a store of four new dicts.
create_context(registers_config) ==
    [t \in StoreTypes |-> parse_registers(registers_config, t)]

\* ModbusTcpProtocolHandler(config, rule_engine, interface_config): the
\* context __init__ makes of rule_engine.registers, or no context at all
\* when the class cannot be instantiated.
handler_context(registers_config) ==
    IF instantiate("modbus_tcp") = "ok"
    THEN create_context(registers_config)
    ELSE <<>>

NoWrite == [made |-> FALSE]

InitModbus ==
    /\ IdleMgr
    /\ IdleHandler
    /\ IdleConn
    /\ IdleFrame
    /\ IdleMatch
    /\ IdleRegs
    /\ IdleRaw
    /\ IdleSer
    /\ IdleDelay
    /\ IdleTcp
    /\ IdleLast
    /\ dicts \in [Devs -> ModbusConfigs]
    /\ context = [d \in Devs |-> handler_context(dicts[registers_of(d)])]
    /\ lastWrite = NoWrite
    /\ writesMade = 0

modbusFrame == <<mgrVars, rules, buffer, connVars, frameVars, matchVars, regVars,
                 rawVars, serVars, delayVars, tcpVars, lastVars>>

\* The value of the next write: every write writes a value of its own.
NextWritten == 10 + writesMade

\* RuleEngine.write_register of device d's engine.
engine_write(d, t, address) ==
    /\ writesMade < MaxWrites
    /\ LET w == write_register(dicts[registers_of(d)], t, address,
                               cell(FALSE, NextWritten))
       IN /\ dicts' = [dicts EXCEPT ![registers_of(d)] = w.regs]
          /\ lastWrite' = [made |-> TRUE, dev |-> d, via |-> "engine", t |-> t,
                           address |-> address, value |-> NextWritten, ok |-> w.ok]
    /\ writesMade' = writesMade + 1
    /\ UNCHANGED context
    /\ UNCHANGED modbusFrame

\* What a read request to a Modbus server of device d answers for one
\* address: the value in the context the server was given, none if there is
\* no context or the context has no such address.
protocol_read(d, t, address) ==
    IF t \in DOMAIN context[d] /\ address \in DOMAIN context[d][t]
    THEN [some |-> TRUE, value |-> context[d][t][address]]
    ELSE None

NextModbus ==
    \E d \in Devs, t \in WritableTypes, a \in ModbusAddrs : engine_write(d, t, a)

SpecModbus == InitModbus /\ [][NextModbus]_vars

----------------------------------------------------------------------------
(* SpecReload: one YamlRuleEngine built over a rules file, the file being  *)
(* rewritten, and calls of reload() and get_response(). reload() is        *)
(* synchronous and get_response() has no await in its body, so each call   *)
(* is one step. An item of the file is a rule configuration YamlRule       *)
(* accepts, or one it raises ValueError for.                               *)

BadItem == [valid |-> FALSE]
GoodItem(r) == [valid |-> TRUE, rule |-> r]

ReloadItems ==
    { BadItem,
      GoodItem([is_regex |-> FALSE, val |-> [s |-> <<"P">>, dollar |-> FALSE],
                response |-> <<"1">>, delay_ms |-> 0]),
      GoodItem([is_regex |-> FALSE, val |-> [s |-> <<"P">>, dollar |-> FALSE],
                response |-> <<"2">>, delay_ms |-> 0]) }

\* What the file can hold: nothing (no file), text that is no YAML, YAML
\* that is no list, or a list of no, one or two items.
RuleFiles ==
    { [kind |-> "missing", items |-> <<>>],
      [kind |-> "bad_yaml", items |-> <<>>],
      [kind |-> "not_list", items |-> <<>>] }
    \cup { [kind |-> "list", items |-> is] :
              is \in {<<>>} \cup Lists(ReloadItems, 2) }

\* open() and yaml.safe_load succeed, the data is a list and YamlRule
\* raises for none of its items.
loadable(file) ==
    /\ file.kind = "list"
    /\ \A i \in DOMAIN file.items : file.items[i].valid

\* [YamlRule(item) for item in data]
rules_of(items) == [i \in DOMAIN items |-> items[i].rule]

\* The rules put one by one into the list in use, up to the first item
\* YamlRule raises for.
RECURSIVE replaced_rule_by_rule(_, _)
replaced_rule_by_rule(old, items) ==
    IF items = <<>> THEN <<>>
    ELSE IF ~Head(items).valid THEN old
    ELSE <<Head(items).rule>>
             \o replaced_rule_by_rule(IF old = <<>> THEN old ELSE Tail(old),
                                      Tail(items))

\* self.rules = [YamlRule(item) for item in data]: the list is built whole
\* and then bound to self.rules; an exception raised while it is built
\* leaves self.rules as it was.
replaced(old, items) ==
    IF \A i \in DOMAIN items : items[i].valid THEN rules_of(items) ELSE old

NoReload == [made |-> FALSE]

\* YamlRuleEngine.__init__ has returned: its reload() did not raise.
InitReload ==
    /\ IdleMgr
    /\ IdleHandler
    /\ IdleConn
    /\ IdleFrame
    /\ IdleRegs
    /\ IdleRaw
    /\ IdleSer
    /\ IdleDelay
    /\ IdleTcp
    /\ IdleMod
    /\ IdleRun
    /\ IdleNew
    /\ callReq = <<>>
    /\ callRes = <<>>
    /\ callMsg = NoCall
    /\ callRule = NoRule
    /\ ruleFile \in {f \in RuleFiles : loadable(f)}
    /\ yrules = replaced(<<>>, ruleFile.items)
    /\ reloadRes = NoReload
    /\ seenRules = <<>>

reloadFrame == <<mgrVars, rules, buffer, connVars, frameVars, callReq, callRes,
                 regVars, rawVars, serVars, delayVars, tcpVars, modVars, runVars,
                 newVars>>

\* The file at self.path is rewritten or removed.
file_written(file) ==
    /\ file # ruleFile
    /\ ruleFile' = file
    /\ UNCHANGED <<yrules, callMsg, callRule, reloadRes, seenRules>>
    /\ UNCHANGED reloadFrame

\* YamlRuleEngine.reload
reload ==
    /\ yrules' = IF ruleFile.kind = "list" THEN replaced(yrules, ruleFile.items)
                 ELSE yrules
    /\ reloadRes' = [made |-> TRUE, raised |-> ~loadable(ruleFile),
                     file |-> ruleFile, before |-> yrules]
    /\ UNCHANGED <<ruleFile, callMsg, callRule, seenRules>>
    /\ UNCHANGED reloadFrame

\* await engine.get_response(m): for rule in self.rules
reload_get_response(m) ==
    /\ callMsg' = [made |-> TRUE, v |-> m]
    /\ callRule' = get_response(yrules, m)
    /\ seenRules' = yrules
    /\ UNCHANGED <<ruleFile, yrules, reloadRes>>
    /\ UNCHANGED reloadFrame

NextReload ==
    \/ \E file \in RuleFiles : file_written(file)
    \/ reload
    \/ \E m \in {<<"P">>, <<"n">>} : reload_get_response(m)

SpecReload == InitReload /\ [][NextReload]_vars

----------------------------------------------------------------------------
(* SpecRun: one call of DTEEmulator.run() over a transport. Each await of  *)
(* run() ends by returning, by an exception, by the CancelledError of a    *)
(* cancelled task or by a KeyboardInterrupt. rLog holds what was awaited   *)
(* to its end: "open", "open_failed", "serve", "serve_failed", "close",    *)
(* "close_failed".                                                         *)

InitRun ==
    /\ IdleMgr
    /\ IdleHandler
    /\ IdleConn
    /\ IdleFrame
    /\ IdleMatch
    /\ IdleRegs
    /\ IdleRaw
    /\ IdleSer
    /\ IdleDelay
    /\ IdleTcp
    /\ IdleMod
    /\ IdleRel
    /\ IdleNew
    /\ rpc = "idle"
    /\ rTransport = "closed"
    /\ rLog = <<>>
    /\ rCause = "none"

runFrame == <<mgrVars, rules, buffer, connVars, frameVars, matchVars, regVars,
              rawVars, serVars, delayVars, tcpVars, modVars, relVars, newVars>>

\* The serve_once calls that have ended.
Served == {i \in DOMAIN rLog : rLog[i] \in {"serve", "serve_failed"}}

\* run() is called: try: await self.transport.open()
run_call ==
    /\ rpc = "idle"
    /\ rpc' = "opening"
    /\ UNCHANGED <<rTransport, rLog, rCause>>
    /\ UNCHANGED runFrame

\* The finally clause of run() is entered whatever ended the try block.
leaves_on_cancel(cause) == IF cause = "cancelled" THEN "returned" ELSE "closing"
through_finally(cause) == "closing"

\* What ended an await other than its return: the exception it raised, the
\* CancelledError of the task, a KeyboardInterrupt.
Endings == {"fatal", "cancelled", "interrupted"}

\* await self.transport.open() ends.
run_opened(how) ==
    /\ rpc = "opening"
    /\ IF how = "ok"
       THEN /\ rpc' = "serving"
            /\ rTransport' = "open"
            /\ rLog' = Append(rLog, "open")
            /\ UNCHANGED rCause
       ELSE /\ rpc' = through_finally(how)
            /\ rCause' = how
            /\ rLog' = IF how = "fatal" THEN Append(rLog, "open_failed") ELSE rLog
            /\ UNCHANGED rTransport
    /\ UNCHANGED runFrame

\* await self.serve_once() ends: by returning or by an exception, and the
\* loop goes on; by CancelledError, and the loop is left by break; by a
\* KeyboardInterrupt, which no clause of the loop catches.
run_served(how) ==
    /\ rpc = "serving"
    /\ IF how \in {"ok", "fatal"}
       THEN /\ Cardinality(Served) < MaxLen
            /\ rLog' = Append(rLog, IF how = "ok" THEN "serve" ELSE "serve_failed")
            /\ UNCHANGED <<rpc, rCause>>
       ELSE /\ rpc' = through_finally(how)
            /\ rCause' = how
            /\ UNCHANGED rLog
    /\ UNCHANGED rTransport
    /\ UNCHANGED runFrame

\* finally: await self.transport.close() ends: by returning; by an
\* exception, which is logged; or by the CancelledError of a task cancelled
\* again or a KeyboardInterrupt, which leave run().
run_closed(how) ==
    /\ rpc = "closing"
    /\ IF how = "ok"
       THEN rpc' = "returned" /\ rTransport' = "closed" /\ rLog' = Append(rLog, "close")
       ELSE IF how = "fatal"
       THEN rpc' = "returned" /\ rLog' = Append(rLog, "close_failed")
                              /\ UNCHANGED rTransport
       ELSE /\ rpc' = "raised"
            /\ rTransport' = IF rTransport = "open" THEN "closing" ELSE rTransport
            /\ UNCHANGED rLog
    /\ UNCHANGED rCause
    /\ UNCHANGED runFrame

NextRun ==
    \/ run_call
    \/ \E how \in {"ok"} \cup Endings : run_opened(how)
    \/ \E how \in {"ok"} \cup Endings : run_served(how)
    \/ \E how \in {"ok"} \cup Endings : run_closed(how)

SpecRun == InitRun /\ [][NextRun]_vars

-----------------------------------------------------------------------------
(* SpecListen: the listen tasks of one SerialInterface whose start() and
   stop() are called in any order, directly or through its DeviceInstance.
   Every task start() creates is kept in lsn, whether self._listen_task
   still refers to it or not. *)

InitListen ==
    /\ IdleMgr
    /\ IdleHandler
    /\ IdleConn
    /\ IdleFrame
    /\ IdleMatch
    /\ IdleRegs
    /\ IdleRaw
    /\ IdleSer
    /\ IdleDelay
    /\ IdleTcp
    /\ IdleMod
    /\ IdleRel
    /\ IdleRun
    /\ IdleCmp
    /\ IdleSh
    /\ lsn = <<>>
    /\ lsnTask = 0
    /\ lsnStop = FALSE
    /\ lsnPort = "closed"
    /\ lsnPc = 0
    /\ lsnPending = <<>>

listenFrame == <<mgrVars, rules, buffer, connVars, frameVars, matchVars,
                 regVars, rawVars, serVars, delayVars, tcpVars, modVars,
                 relVars, runVars, cmpVars, shVars>>

\* The listen tasks that have not ended.
Listeners == {t \in DOMAIN lsn : lsn[t] = "running"}

\* SerialInterface._open_port: True at once for an open port, else the
\* outcome of serial.Serial(...).
open_port(ok) == lsnPort = "open" \/ ok

\* The body of SerialInterface.start: the stop event is cleared, the port
\* opened, and a listen task created and stored in self._listen_task;
\* ConnectionError is raised if the port did not open.
start_body(ok) ==
    /\ lsnStop' = FALSE
    /\ IF open_port(ok)
       THEN /\ lsnPort' = "open"
            /\ lsn' = Append(lsn, "running")
            /\ lsnTask' = Len(lsn) + 1
       ELSE UNCHANGED <<lsnPort, lsn, lsnTask>>

\* A caller awaits SerialInterface.start.
SerialInterface_start(ok) ==
    /\ Len(lsn) < MaxStarts
    /\ start_body(ok)
    /\ UNCHANGED <<lsnPc, lsnPending>>
    /\ UNCHANGED listenFrame

\* DeviceInstance.start: a task that will run interface.start is created.
instance_start_call ==
    /\ Len(lsnPending) < MaxStarts
    /\ lsnPending' = Append(lsnPending, "pending")
    /\ UNCHANGED <<lsn, lsnTask, lsnStop, lsnPort, lsnPc>>
    /\ UNCHANGED listenFrame

\* A task DeviceInstance.start created runs interface.start.
start_task_runs(i, ok) ==
    /\ lsnPending[i] = "pending"
    /\ Len(lsn) < MaxStarts
    /\ lsnPending' = [lsnPending EXCEPT ![i] = "done"]
    /\ start_body(ok)
    /\ UNCHANGED lsnPc
    /\ UNCHANGED listenFrame

\* _listen: the loop condition finds the stop event set and the task ends.
listen_loop_exit(t) ==
    /\ t \in Listeners
    /\ lsnStop
    /\ lsn' = [lsn EXCEPT ![t] = "done"]
    /\ UNCHANGED <<lsnTask, lsnStop, lsnPort, lsnPc, lsnPending>>
    /\ UNCHANGED listenFrame

\* _listen: a read raises and the handler closes the port.
listen_port_lost(t) ==
    /\ t \in Listeners
    /\ ~lsnStop
    /\ lsnPort = "open"
    /\ lsnPort' = "closed"
    /\ UNCHANGED <<lsn, lsnTask, lsnStop, lsnPc, lsnPending>>
    /\ UNCHANGED listenFrame

\* _listen: the port is not open and the loop tries to open it again.
listen_reconnect(t, ok) ==
    /\ t \in Listeners
    /\ ~lsnStop
    /\ lsnPort = "closed"
    /\ lsnPort' = IF ok THEN "open" ELSE "closed"
    /\ UNCHANGED <<lsn, lsnTask, lsnStop, lsnPc, lsnPending>>
    /\ UNCHANGED listenFrame

\* The body of SerialInterface.stop up to its wait: the stop event is set,
\* self._listen_task taken and set to None; a task still running is waited
\* for, otherwise the port is closed at once.
stop_body ==
    /\ lsnStop' = TRUE
    /\ lsnTask' = 0
    /\ IF lsnTask # 0 /\ lsnTask \in Listeners
       THEN /\ lsnPc' = lsnTask
            /\ UNCHANGED lsnPort
       ELSE /\ lsnPc' = 0
            /\ lsnPort' = "closed"
    /\ UNCHANGED lsn

\* A caller awaits SerialInterface.stop.
SerialInterface_stop ==
    /\ lsnPc = 0
    /\ stop_body
    /\ UNCHANGED lsnPending
    /\ UNCHANGED listenFrame

\* DeviceInstance.stop: self._task is cancelled if it is not done, then
\* interface.stop is awaited.
instance_stop_call ==
    /\ lsnPc = 0
    /\ lsnPending' = IF lsnPending # <<>> /\ lsnPending[Len(lsnPending)] = "pending"
                      THEN [lsnPending EXCEPT ![Len(lsnPending)] = "cancelled"]
                      ELSE lsnPending
    /\ stop_body
    /\ UNCHANGED listenFrame

\* stop: wait_for gives up after 2 s and the task waited for is cancelled.
stop_wait_timeout ==
    /\ lsnPc # 0
    /\ lsnPc \in Listeners
    /\ lsn' = [lsn EXCEPT ![lsnPc] = "done"]
    /\ UNCHANGED <<lsnTask, lsnStop, lsnPort, lsnPc, lsnPending>>
    /\ UNCHANGED listenFrame

\* stop: the task waited for has ended; the port is closed and stop returns.
stop_wait_over ==
    /\ lsnPc # 0
    /\ lsnPc \notin Listeners
    /\ lsnPc' = 0
    /\ lsnPort' = "closed"
    /\ UNCHANGED <<lsn, lsnTask, lsnStop, lsnPending>>
    /\ UNCHANGED listenFrame

NextListen ==
    \/ \E ok \in BOOLEAN : SerialInterface_start(ok)
    \/ instance_start_call
    \/ \E i \in DOMAIN lsnPending, ok \in BOOLEAN : start_task_runs(i, ok)
    \/ \E t \in DOMAIN lsn : listen_loop_exit(t)
    \/ \E t \in DOMAIN lsn : listen_port_lost(t)
    \/ \E t \in DOMAIN lsn, ok \in BOOLEAN : listen_reconnect(t, ok)
    \/ SerialInterface_stop
    \/ instance_stop_call
    \/ stop_wait_timeout
    \/ stop_wait_over

SpecListen == InitListen /\ [][NextListen]_vars

-----------------------------------------------------------------------------
(* SpecSame: one frame, terminator included, given to a new                *)
(* ScpiProtocolHandler and to a RawProtocolHandler that share one rule     *)
(* set; each call is awaited to its end.                                   *)

\* The frames: a text without terminator, followed by the terminator.
SameFrames == {t \o terminator : t \in {<<>>} \cup Lists({"P", "X"}, MaxReq)}

NoFrame == [made |-> FALSE]

InitSame ==
    /\ IdleMgr
    /\ IdleConn
    /\ IdleFrame
    /\ IdleMatch
    /\ IdleRegs
    /\ IdleRaw
    /\ IdleSer
    /\ IdleDelay
    /\ IdleTcp
    /\ IdleMod
    /\ IdleRel
    /\ IdleRun
    /\ IdleLsn
    /\ IdleSh
    /\ buffer = <<>>
    /\ rules \in Lists(RulePool, MaxRules)
    /\ cmpReq = NoFrame
    /\ cmpScpi = NoMatch
    /\ cmpRaw = NoMatch

sameFrame == <<mgrVars, rules, buffer, connVars, frameVars, matchVars, regVars,
               rawVars, serVars, delayVars, tcpVars, modVars, relVars, runVars,
               lsnVars, shVars>>

\* ScpiProtocolHandler.handle_data of a handler with an empty buffer, given
\* the one frame f: the rule matched for the frame and the bytes returned.
scpi_answer(rs, f) ==
    LET r == sleep_through(rs, drain(rs, extend(<<>>, Wire(f, 1)), <<>>, <<>>))
    IN [m |-> find_response(rs, Bytes(f)),
        some |-> response_of(r).some,
        bs |-> response_of(r).bs]

\* RawProtocolHandler.handle_data given the same bytes.
raw_answer(rs, f) ==
    LET r == raw_handle_data_slept(rs, f)
    IN [m |-> r.m, some |-> r.st = "done" /\ r.some, bs |-> r.bs]

\* The frame f is given to both handlers.
both_handle(f) ==
    /\ cmpReq' = [made |-> TRUE, f |-> f]
    /\ cmpScpi' = scpi_answer(rules, f)
    /\ cmpRaw' = raw_answer(rules, f)
    /\ UNCHANGED sameFrame

NextSame == \E f \in SameFrames : both_handle(f)

SpecSame == InitSame /\ [][NextSame]_vars

-----------------------------------------------------------------------------
(* SpecShared: one RuleEngine whose register map the tasks of two          *)
(* connections read and write. The tasks run on one event loop: a task     *)
(* runs from one await to the next (a turn) and no other task runs         *)
(* meanwhile. Around the call a task awaits its request and the sending of *)
(* its reply; read_registers and write_register hold no await.             *)

\* The requests: reads of the configured type over one or two addresses,
\* and writes to one address, configured or not.
SharedReads ==
    {[kind |-> "read", t |-> "holding", address |-> a, count |-> n] :
        a \in 0..1, n \in 1..2}
SharedWrites ==
    {[kind |-> "write", t |-> "holding", address |-> a] : a \in 0..2}

\* The connections whose tasks call the engine.
SharedConns == {1, 2}

\* registers_config: two addresses of one type hold a value.
SharedConfig ==
    [t \in {"holding", "input"} |->
        IF t = "holding" THEN [a \in {0, 1} |-> 7] ELSE <<>>]

NoOp == [st |-> "idle", kind |-> "none"]

InitShared ==
    /\ IdleMgr
    /\ IdleHandler
    /\ IdleConn
    /\ IdleFrame
    /\ IdleMatch
    /\ IdleRegs
    /\ IdleRaw
    /\ IdleSer
    /\ IdleDelay
    /\ IdleTcp
    /\ IdleMod
    /\ IdleRel
    /\ IdleRun
    /\ IdleLsn
    /\ IdleCmp
    /\ shRegs = SharedConfig
    /\ shOps = [c \in SharedConns |-> NoOp]
    /\ shLog = <<>>

sharedFrame == <<mgrVars, rules, buffer, connVars, frameVars, matchVars,
                 regVars, rawVars, serVars, delayVars, tcpVars, modVars,
                 relVars, runVars, lsnVars, cmpVars>>

\* The number of addresses the loop of read_registers goes through before
\* the task gives way to the others: the loop holds no await and runs to its
\* end in the turn that entered it.
\* (one_per_turn: the loop with an await in its body)
one_per_turn(count) == 1
addresses_per_turn(count) == count

LesserOf(a, b) == IF a <= b THEN a ELSE b

\* One turn of a task inside read_registers: the next addresses are read
\* from the map as it is now; at marks when each value was read, as the
\* number of writes made before it.
read_turn(op, regs, at) ==
    LET from == Len(op.values)
        n == LesserOf(addresses_per_turn(op.count), op.count - from)
        got == [i \in 1..n |-> value_at(regs[op.t], op.address + from + i - 1)]
        values == op.values \o got
    IN [op EXCEPT !.values = values,
                  !.at = op.at \o [i \in 1..n |-> at],
                  !.st = IF Len(values) = op.count THEN "replying" ELSE "running"]

\* The value of the next write: every write writes a value of its own.
SharedValue == 10 + Len(shLog)

\* A request arrives on connection c: the await of its task returns.
shared_receive(c, req) ==
    /\ shOps[c].st = "idle"
    /\ req.kind = "write" => Len(shLog) < MaxWrites
    /\ shOps' = [shOps EXCEPT ![c] =
                   IF req.kind = "read"
                   THEN [st |-> "ready", kind |-> "read", t |-> req.t,
                         address |-> req.address, count |-> req.count,
                         values |-> <<>>, at |-> <<>>]
                   ELSE [st |-> "ready", kind |-> "write", t |-> req.t,
                         address |-> req.address]]
    /\ UNCHANGED <<shRegs, shLog>>
    /\ UNCHANGED sharedFrame

\* The task of connection c runs a turn: it makes its call, which for
\* write_register is the one assignment, then awaits the sending of its reply.
shared_turn(c) ==
    /\ shOps[c].st \in {"ready", "running"}
    /\ IF shOps[c].kind = "read"
       THEN /\ shOps' = [shOps EXCEPT ![c] = read_turn(@, shRegs, Len(shLog))]
            /\ UNCHANGED <<shRegs, shLog>>
       ELSE LET w == write_register(shRegs, shOps[c].t, shOps[c].address,
                                    SharedValue)
            IN /\ shRegs' = w.regs
               /\ shLog' = Append(shLog,
                                  [conn |-> c, t |-> shOps[c].t,
                                   address |-> shOps[c].address,
                                   value |-> SharedValue, ok |-> w.ok])
               /\ shOps' = [shOps EXCEPT ![c].st = "replying"]
    /\ UNCHANGED sharedFrame

\* The reply of connection c has been sent; its task awaits the next request.
shared_replied(c) ==
    /\ shOps[c].st = "replying"
    /\ shOps' = [shOps EXCEPT ![c].st = "idle"]
    /\ UNCHANGED <<shRegs, shLog>>
    /\ UNCHANGED sharedFrame

NextShared ==
    \/ \E c \in SharedConns, req \in SharedReads \cup SharedWrites : shared_receive(c, req)
    \/ \E c \in SharedConns : shared_turn(c)
    \/ \E c \in SharedConns : shared_replied(c)

SpecShared == InitShared /\ [][NextShared]_vars

----------------------------------------------------------------------------
(* Claims about the lifecycle layer, under Spec. *)

\* The instance the last start_all built from definition i had its start() run.
StartedFrom(i) ==
    \E id \in DOMAIN inst :
        /\ inst[id].def = i
        /\ id > genBase
        /\ inst[id].startRes = "ok"

\* C1: start_all never raises because a device failed to construct or start,
\* and when it has returned, every enabled definition that can be constructed
\* has been constructed and its start() has run, whatever happened to the
\* other definitions of the list.
C1_StartAllIsolatesFailures ==
    /\ startAllRes # "raised"
    /\ startAllRes = "returned" => \A i \in DOMAIN defs : Startable(i) => StartedFrom(i)

\* C1 witness: start_all has returned, an enabled definition failed to
\* construct, and a later definition of the list was constructed and started.
C1_Witness ==
    /\ startAllRes = "returned"
    /\ \E i, j \in DOMAIN defs :
         /\ i < j
         /\ is_enabled(defs[i])
         /\ create_device_instance(defs[i]) = "raise"
         /\ Startable(j)
         /\ StartedFrom(j)

\* The start of an instance succeeded: start() returned and its bind/open did
\* not fail.
StartSucceeded(r) == r.startRes = "ok" /\ r.bind # "failed"

\* Every start launched by start_all was the start of an interface, has
\* settled, and nothing was stopped since.
StartSettled ==
    /\ startAllRes = "returned"
    /\ \A id \in DOMAIN inst :
         /\ ~has_lifecycle(inst[id])
         /\ inst[id].task # "pending"
         /\ ~inst[id].stopped

\* C2 (as claimed): after start_all has returned and the starts have settled,
\* with definitions of distinct names, get_active_device_count() is the number
\* of instances whose start succeeded.
C2_CountIsSucceeded ==
    (/\ StartSettled
     /\ \A i, j \in DOMAIN defs : i # j => defs[i].name # defs[j].name)
    => get_active_device_count
         = Cardinality({id \in DOMAIN inst : StartSucceeded(inst[id])})

\* C3 (as claimed): when the interface of an instance cannot bind or open,
\* start() has raised to its caller and the instance is not running.
C3_StartFailsFast ==
    \A id \in DOMAIN inst :
        (~has_lifecycle(inst[id]) /\ inst[id].bind = "failed") =>
            inst[id].startRes = "raised" /\ ~is_running(inst[id])

\* Once a stop_all call has ended, by returning or by raising, the tracking
\* map is empty.
StopAllEmptiesMap ==
    stopAllRes \in {"returned", "raised"} => get_active_device_count = 0

StopOfStoppedDoesNotRaise == \A id \in DOMAIN inst : ~inst[id].reraised

\* C5: stop() is idempotent: on every instance, stop() does not raise, a
\* second stop() does not raise and leaves the instance as the first left
\* it, and stop() on an instance that is not running, never started or
\* already stopped, changes nothing.
C5_StopIdempotent ==
    /\ StopOfStoppedDoesNotRaise
    /\ \A id \in DOMAIN inst :
         LET once == DeviceInstance_stop(inst[id])
             twice == DeviceInstance_stop(once.r)
         IN /\ once.res = "ok"
            /\ twice.res = "ok"
            /\ twice.r = once.r
            /\ ~is_running(inst[id]) => once.r = inst[id]

\* C5 witness: an instance whose interface was up has been stopped and is
\* not running; another was stopped after its bind had failed.
C5_Witness ==
    /\ \E id \in DOMAIN inst :
         inst[id].stopped /\ inst[id].bind = "ok" /\ ~is_running(inst[id])
    /\ \E id \in DOMAIN inst :
         inst[id].stopped /\ inst[id].task = "failed"

----------------------------------------------------------------------------
(* Claims about the stream-framed handler alone, under SpecFrame. *)

\* Both handlers have been given the whole stream.
BothFed == fed = Len(stream) /\ hWhole.calls = 1

SameResult == hChunked.frames = hWhole.frames /\ hChunked.out = hWhole.out

C10_TwoFramesTwoResponses ==
    (/\ rules = PingRules
     /\ stream = <<"P", "n", "P", "n">>
     /\ hWhole.calls = 1)
    => hWhole.out = <<"O", "O">>

----------------------------------------------------------------------------
(* Claims about concurrent clients of one device, under SpecConn. *)

OneSource(bs) == \A i, j \in DOMAIN bs : bs[i].src = bs[j].src

\* C6 (as claimed): framing state is per connection; bytes received on one
\* connection are never buffered or framed together with bytes received on
\* another connection.
C6_FramingPerConnection ==
    /\ OneSource(buffer)
    /\ \A i \in DOMAIN frames : OneSource(frames[i])

\* C7 (as claimed): bytes are written to a connection only as the response to
\* a request received on that connection; here in its weakest reading, that
\* the answered frame holds at least one byte the connection received.
C7_ResponseToOwnRequest ==
    \A c \in Conns : \A i \in DOMAIN out[c] :
        \E j \in DOMAIN out[c][i].frame : out[c][i].frame[j].src = c

\* Every byte of frame f that arrived on the connection of a byte of g
\* arrived before it.
Before(f, g) ==
    \A i \in DOMAIN f, j \in DOMAIN g : f[i].src = g[j].src => f[i].k < g[j].k

----------------------------------------------------------------------------
(* More claims about the stream-framed handler, under SpecFrame. *)

\* The number of terminators in cs.
RECURSIVE count_terminators(_)
count_terminators(cs) ==
    IF cs = <<>> THEN 0
    ELSE (IF <<Head(cs)>> = terminator THEN 1 ELSE 0) + count_terminators(Tail(cs))

\* C11: a call of handle_data in which the processing of a frame raises ends
\* normally, with the buffer empty and None returned.
C11_RaiseClearsAndReturnsNone ==
    \A h \in {hChunked, hWhole} :
        (h.calls > 0 /\ h.last.exc) => (h.buf = <<>> /\ ~h.last.some)

\* C11 witness: the one call on the whole stream raised on a frame with a
\* complete frame still behind it in the buffer.
C11_Witness ==
    /\ hWhole.calls = 1
    /\ hWhole.last.exc
    /\ hWhole.last.n < count_terminators(stream)

----------------------------------------------------------------------------
(* Claims about the rule engines, under SpecRules. *)

\* The least element of a non-empty set of numbers.
Least(S) == CHOOSE i \in S : \A j \in S : i <= j

\* The rules of the RuleEngine that match request r, by position.
Matching(r) == {i \in DOMAIN rules : rule_matches(rules[i], r)}

\* The rules of the YamlRuleEngine that match message m, by position.
YamlMatching(m) == {i \in DOMAIN yrules : YamlRule_matches(yrules[i], m)}

\* C12: find_response and get_response return the response and delay of the
\* first rule, in declaration order, that matches, and None exactly when no
\* rule matches.
C12_FirstMatchInOrder ==
    /\ callReq.made =>
         IF Matching(callReq.v) = {} THEN ~callRes.found
         ELSE /\ callRes.found
              /\ callRes.response = rules[Least(Matching(callReq.v))].resp
              /\ callRes.delay = rules[Least(Matching(callReq.v))].delay
    /\ callMsg.made =>
         IF YamlMatching(callMsg.v) = {} THEN ~callRule.found
         ELSE /\ callRule.found
              /\ callRule.response = yrules[Least(YamlMatching(callMsg.v))].response
              /\ callRule.delay_ms = yrules[Least(YamlMatching(callMsg.v))].delay_ms

\* C12 witness: a request that two rules with different responses match,
\* answered with the first one's.
C12_Witness ==
    /\ callReq.made
    /\ Matching(callReq.v) = {1, 2}
    /\ rules[1].resp # rules[2].resp
    /\ callRes.found
    /\ callRes.response = rules[1].resp

\* The only rule of the RuleEngine, when it is an exact rule.
OneExact == Len(rules) = 1 /\ rules[1].type = "exact"

\* The only rule of the YamlRuleEngine, when it is not a regex.
OneYamlExact == Len(yrules) = 1 /\ ~yrules[1].is_regex

\* cs without the whitespace at its end.
Core(cs) ==
    LET ends == {k \in 0..Len(cs) : k = 0 \/ cs[k] \notin Whitespace}
    IN SubSeq(cs, 1, CHOOSE k \in ends : \A j \in ends : j <= k)

C14_PrefixSameRepresentation ==
    (Len(rules) = 1 /\ rules[1].type = "prefix" /\ callReq.made) =>
        (callRes.found <=> (/\ callReq.v.rep = rules[1].val.rep
                            /\ startswith(callReq.v.s, rules[1].val.s)))

\* C14 witness: a bytes request that starts with the characters of a str
\* prefix rule, and is not matched by it.
C14_Witness ==
    /\ Len(rules) = 1
    /\ rules[1].type = "prefix"
    /\ callReq.made
    /\ callReq.v.rep # rules[1].val.rep
    /\ startswith(callReq.v.s, rules[1].val.s)
    /\ Len(callReq.v.s) > Len(rules[1].val.s)
    /\ ~callRes.found

\* The regex rules whose pattern did not compile, by position.
Disabled == {i \in DOMAIN rules : rules[i].type = "regex" /\ ~rules[i].compiled}

\* The list rs without its i-th element.
Without(rs, i) == SubSeq(rs, 1, i - 1) \o SubSeq(rs, i + 1, Len(rs))

\* C15: a regex rule whose pattern failed to compile never matches, and every
\* request is answered as if the rule were not in the list.
C15_BadRegexDisabled ==
    callReq.made =>
        \A i \in Disabled :
            /\ i \notin Matching(callReq.v)
            /\ callRes = find_response(Without(rules, i), callReq.v)

\* C15 witness: a request the uncompiled pattern would have matched, answered
\* by the rule that follows it.
C15_Witness ==
    /\ callReq.made
    /\ Len(rules) = 2
    /\ 1 \in Disabled
    /\ regex_match(rules[1].val, callReq.v.s)
    /\ callRes.found
    /\ callRes.response = rules[2].resp

----------------------------------------------------------------------------
(* Claims about the register store, under SpecRegs. *)

\* C16: a read of an existing register type with address >= 0 and count > 0
\* returns exactly count values, the stored value where one is stored and zero
\* elsewhere; a missing address never makes the read fail.
C16_ReadZeroFills ==
    (/\ readRes.made
     /\ readRes.t \in DOMAIN registers
     /\ readRes.address >= 0
     /\ readRes.count > 0)
    => /\ readRes.ret.some
       /\ Len(readRes.ret.values) = readRes.count
       /\ \A i \in 0..(readRes.count - 1) :
            LET a == readRes.address + i
                stored == registers[readRes.t]
            IN readRes.ret.values[i + 1] = IF a \in DOMAIN stored THEN stored[a] ELSE 0

\* C16 witness: a read over a stored, non-zero value and a missing address.
C16_Witness ==
    /\ readRes.made
    /\ readRes.ret.some
    /\ readRes.count = 2
    /\ readRes.address \notin DOMAIN registers[readRes.t]
    /\ readRes.address + 1 \in DOMAIN registers[readRes.t]
    /\ readRes.ret.values = <<0, 7>>

\* The successful writes to address a of type t, by position in the log.
WritesTo(t, a) ==
    {i \in DOMAIN written :
        written[i].ok /\ written[i].t = t /\ written[i].address = a}

\* The greatest element of a non-empty set of numbers.
Greatest(S) == CHOOSE i \in S : \A j \in S : j <= i

\* C17: after a successful write_register(t, a, v), read_registers(t, a, 1)
\* returns [v] until the next write to a of t, whatever was written to other
\* addresses and types since.
C17_WriteThenRead ==
    \A t \in RegTypes, a \in Addresses :
        WritesTo(t, a) # {} =>
            LET v == written[Greatest(WritesTo(t, a))].value
            IN /\ read_registers(registers, t, a, 1) = [some |-> TRUE, values |-> <<v>>]
               /\ (readRes.made /\ readRes.t = t /\ readRes.address = a
                   /\ readRes.count = 1) => readRes.ret.values = <<v>>

\* C17 witness: a value written, then a write to another address, then a read
\* of the first address that returns the value.
C17_Witness ==
    /\ Len(written) = 2
    /\ written[1].ok /\ written[2].ok
    /\ written[1].t = written[2].t
    /\ written[1].address # written[2].address
    /\ written[1].value # 0
    /\ readRes.made
    /\ readRes.t = written[1].t
    /\ readRes.address = written[1].address
    /\ readRes.count = 1
    /\ readRes.ret.values = <<written[1].value>>

----------------------------------------------------------------------------
(* Claims about the TCP clients of a raw device, under SpecRaw. *)

\* What a handler call for the request cmd writes when the request is served
\* on its own: the bytes of the response, or nothing.
Answer(cmd) ==
    LET r == raw_handle_data_slept(rules, Chr(cmd))
    IN IF r.st = "done" /\ r.some THEN r.bs ELSE <<>>

\* C19: a request that matches no rule has nothing written for it and is no
\* error; the connection stays open until its client closes it, and every
\* request, those after an unmatched one too, is answered as it is on its own.
C19_NoMatchWritesNothing ==
    \A c \in Conns :
        /\ \A i \in DOMAIN served[c] :
             /\ ~served[c][i].matched =>
                  (served[c][i].wrote = <<>> /\ ~served[c][i].raised)
             /\ served[c][i].wrote = Answer(served[c][i].req)
        /\ conn[c] = "closed" => toSend[c] = <<>>

\* C19 witness: a connection on which a request that matched no rule was
\* followed by one that was answered.
C19_Witness ==
    \E c \in Conns :
        /\ Len(served[c]) = 2
        /\ decodable(Chr(served[c][1].req))
        /\ ~served[c][1].matched
        /\ served[c][2].matched
        /\ served[c][2].wrote # <<>>
        /\ out[c] = <<[frame |-> served[c][2].req, resp |-> served[c][2].wrote]>>

\* C20: while the handler call of one connection waits out a delay, a request
\* that has arrived on another connection can be read and is answered as it is
\* on its own; the waiting connection itself reads nothing more until then.
C20_DelayBlocksOnlyItsConnection ==
    \A c \in Conns :
        hpc[c] = "sleep" =>
            /\ ~ENABLED (\E n \in 1..MaxLen : raw_client_read(c, n))
            /\ \A d \in Conns \ {c} :
                 /\ (conn[d] = "open" /\ hpc[d] = "read" /\ toSend[d] # <<>>)
                        => ENABLED raw_client_read(d, 1)
                 /\ \A i \in DOMAIN served[d] :
                        served[d][i].wrote = Answer(served[d][i].req)

\* C20 witness: a connection still waiting out its delay while another was
\* answered a request it sent after that wait began.
C20_Witness ==
    \E c \in Conns, d \in Conns :
        /\ c # d
        /\ hpc[c] = "sleep"
        /\ \E i \in DOMAIN served[d] :
             /\ <<c, Len(toSend[c])>> \in served[d][i].during
             /\ served[d][i].wrote # <<>>


----------------------------------------------------------------------------
(* Claim about handler exceptions on the serial interface, under           *)
(* SpecSerial.                                                             *)

\* C18: an exception raised while the protocol handler processes a request
\* results only in no response for that request: while the listener deals
\* with it the serial port is not closed, as a TCP connection is not.
C18_HandlerErrorKeepsPortOpen ==
    (listening /\ sCause = "handler" /\ spc = "backoff") => sport = "open"


----------------------------------------------------------------------------
(* Claim about the delay of a rule, under SpecDelay. *)

\* C21: a matched rule's response is never produced or written before the
\* rule's delay has passed since the match, and the response of a rule with
\* zero delay is produced at the time of the match, without waiting.
C21_DelayWaitedBeforeResponse ==
    \A i \in DOMAIN dOut :
        /\ dOut[i].producedAt >= dOut[i].matchedAt + dOut[i].delay
        /\ dOut[i].wroteAt >= dOut[i].producedAt
        /\ dOut[i].delay = 0 => dOut[i].producedAt = dOut[i].matchedAt

\* C21 witness: a response of a rule with a delay and a response of a rule
\* without one have been written.
C21_Witness ==
    \E i, j \in DOMAIN dOut : dOut[i].delay > 0 /\ dOut[j].delay = 0


----------------------------------------------------------------------------
(* Claims about the serial read loop and stop(), under SpecSerialLive. *)

\* C22: after a channel-level error the read loop closes the port and retries
\* opening it: it ends only once stop() has been requested, it begins no
\* attempt to open the port after stop() has been requested, and while the
\* port is closed it comes, when the port can be opened again, to the point
\* of reading again unless stop() is requested.
C22_ReconnectsUntilStopped ==
    /\ [][(sTask = "running" /\ sTask' # "running") => sStop]_vars
    /\ [][(spc # "opening" /\ spc' = "opening") => ~sStop]_vars
    /\ [][(sport = "open" /\ spc' = "backoff") => sport' = "closed"]_vars
    /\ (sTask = "running" /\ sport = "closed") ~> (spc = "opened" \/ sStop)

\* C22 witness: after a serial error closed the port, the loop has reopened
\* it and is about to read, no stop() having been requested.
C22_Witness ==
    /\ sTask = "running"
    /\ sCause = "io"
    /\ spc = "opened"
    /\ sport = "open"
    /\ ~sStop

----------------------------------------------------------------------------
(* Claims about the TCP server's connections, send() and stop(), under     *)
(* SpecTcp, SpecTcpLive and SpecIface.                                     *)

\* The read/respond loop of connection c is running.
LoopRunning(c) == tConn[c] \in {"running", "handling"}

\* C24: a connection is in the tracked set exactly while its read/respond
\* loop is running: every connection whose loop is running is tracked, and
\* no connection that was never accepted or whose task has ended is.
C24_TrackedWhileLoopRuns ==
    \A c \in Conns :
        /\ LoopRunning(c) => c \in tWriters
        /\ tConn[c] \in {"none", "ended"} => c \notin tWriters

\* C25: once stop() has returned the tracked set is empty and no request of
\* any client connection is still being handled.
C25_StopLeavesNoClientServed ==
    tStopPc = "returned" =>
        /\ tWriters = {}
        /\ \A c \in Conns : tConn[c] # "handling"

\* C26: stop() never hangs: a stop() that has been called returns.
C26_StopNeverHangs == stopping ~> (tStopPc = "returned")

C28_SendFailureIsolated ==
    tSend.active =>
        /\ tSend.delivered = (tSend.before \ tClosing) \ tSend.failed
        /\ tSend.failed \subseteq tWriters
        /\ tWriters = tSend.before

\* C28 witness: a send() is in progress in which the write to one client
\* failed and another client was given the data.
C28_Witness ==
    /\ tSend.active
    /\ tSend.failed # {}
    /\ tSend.delivered # {}


----------------------------------------------------------------------------
(* Claims about the registers of a device configured with modbus_tcp,      *)
(* under SpecModbus.                                                       *)

\* What RuleEngine.read_registers of device d gives for one address, as a
\* value: the value of the cell it returns.
EngineReads(d, t, address, value) ==
    LET regs == dicts[registers_of(d)]
    IN /\ read_registers(regs, t, address, 1).some
       /\ address \in DOMAIN regs[t]
       /\ read_registers(regs, t, address, 1).values[1] = cell(FALSE, value)

\* C29: the handler serves reads and writes from the RuleEngine's register
\* store: after a register is written through the protocol, read_registers
\* of the device's engine gives that value at that type and address, and
\* after a write_register that succeeded, a protocol read of the device
\* gives that value.
C29_ProtocolServesEngineRegisters ==
    (lastWrite.made /\ lastWrite.ok) =>
        /\ lastWrite.via = "protocol" =>
               EngineReads(lastWrite.dev, lastWrite.t, lastWrite.address,
                           lastWrite.value)
        /\ lastWrite.via = "engine" =>
               protocol_read(lastWrite.dev, lastWrite.t, lastWrite.address)
                   = [some |-> TRUE, value |-> lastWrite.value]

\* C30: register state is owned per device: a step that writes a register
\* of one device leaves the registers of every other device's engine, and
\* what a protocol read of every other device gives, as they were, so that
\* no read of another device changes.
C30_RegistersOwnedPerDevice ==
    [][\A d \in Devs :
          (lastWrite' # lastWrite /\ lastWrite'.dev = d) =>
              \A e \in Devs \ {d} :
                  /\ dicts'[registers_of(e)] = dicts[registers_of(e)]
                  /\ context'[e] = context[e]]_vars

\* A write to device 1 succeeded at a type and address that device 2 holds
\* in registers of its own, which still hold the value of its config.
C30_Witness ==
    /\ lastWrite.made
    /\ lastWrite.ok
    /\ lastWrite.dev = 1
    /\ lastWrite.via = "engine"
    /\ lastWrite.t \in DOMAIN dicts[2]
    /\ lastWrite.address \in DOMAIN dicts[2][lastWrite.t]
    /\ dicts[2][lastWrite.t][lastWrite.address].list
    /\ EngineReads(1, lastWrite.t, lastWrite.address, lastWrite.value)


----------------------------------------------------------------------------
(* Claims about YamlRuleEngine.reload, under SpecReload.                   *)

\* The lists that are wholly the rules of one loadable file.
WholeLists == {rules_of(f.items) : f \in {g \in RuleFiles : loadable(g)}}

\* C31: reload replaces the rule list atomically: after a reload that did
\* not raise, and until the next one, the list is the rules of the file it
\* read, in their order; after one that raised it is the list there was
\* before; and the list a get_response goes through is always wholly the
\* rules of one file, never some of one and some of another.
C31_ReloadAtomic ==
    /\ (reloadRes.made /\ ~reloadRes.raised) =>
           (yrules = rules_of(reloadRes.file.items) /\ loadable(reloadRes.file))
    /\ (reloadRes.made /\ reloadRes.raised) => yrules = reloadRes.before
    /\ callMsg.made =>
           /\ seenRules \in WholeLists
           /\ callRule = get_response(seenRules, callMsg.v)

\* A reload of a list whose second item is invalid has raised, over a list
\* of two rules read from another file, and a get_response was answered by
\* the rule of the old list.
C31_Witness ==
    /\ reloadRes.made
    /\ reloadRes.raised
    /\ reloadRes.file.kind = "list"
    /\ Len(reloadRes.file.items) = 2
    /\ reloadRes.file.items[1].valid
    /\ Len(reloadRes.before) = 2
    /\ reloadRes.file.items[1].rule # reloadRes.before[1]
    /\ callMsg.made
    /\ callRule.found
    /\ callRule.response = reloadRes.before[1].response
    /\ seenRules = yrules


----------------------------------------------------------------------------
(* Claims about DTEEmulator, under SpecDelay.                              *)

\* The rule's own tx_end when the rule has one, else the default.
own_or_default(rule_tx_end, default) ==
    IF rule_tx_end.some THEN rule_tx_end.s ELSE default

\* The messages serve_once has read, matched and is not sleeping for.
Answerable ==
    IF dpc = "sleep" THEN SubSeq(dMatched, 1, Len(dMatched) - 1) ELSE dMatched

\* C32: serve_once writes exactly one message per request that matches a
\* rule: the messages written are, one for one and in order, for the
\* requests a rule matched, and each is the rule's response followed by the
\* rule's own tx_end when it has one, otherwise by the emulator's tx_end.
C32_OneMessagePerMatch ==
    dKind = "dte" =>
        /\ [i \in DOMAIN dOut |-> dOut[i].frame] = Answerable
        /\ \A i \in DOMAIN dOut :
               LET rule == get_response(yrules, rstrip(Chr(dOut[i].frame)))
               IN dOut[i].resp = rule.response \o own_or_default(rule.tx_end, tx_end)

\* What serve_once does keep: one message per matching request, the rule's
\* response followed by the rule's tx_end when that is not empty, otherwise
\* by the emulator's.
OneMessagePerMatchNonEmpty ==
    dKind = "dte" =>
        /\ [i \in DOMAIN dOut |-> dOut[i].frame] = Answerable
        /\ \A i \in DOMAIN dOut :
               LET rule == get_response(yrules, rstrip(Chr(dOut[i].frame)))
               IN dOut[i].resp = rule.response \o or_else(rule.tx_end, tx_end)


----------------------------------------------------------------------------
(* Claims about DTEEmulator.run, under SpecRun.                            *)

----------------------------------------------------------------------------
(* Further claims about the serial listener, under SpecSerial.             *)

\* C34: a complete terminator-delimited message in the read buffer is passed
\* to the data handler without waiting for further bytes to arrive, also
\* when one read returns several messages: whenever the loop is back at its
\* top, where it reads the port again, its buffer holds no complete message.
C34_CompleteMessagesDelivered ==
    (listening /\ spc = "listen") => find(sbuf, serial_terminator) < 0


----------------------------------------------------------------------------
(* Further claims about the lifecycle layer, under Spec.                   *)

\* C35: every instance whose start was launched by start_all is tracked by
\* the manager for as long as it runs, so that the next stop_all stops it:
\* no instance with a start task still to run, a pending task, a channel up
\* or a server task running is missing from the manager's map.
C35_StartedAreTracked ==
    \A id \in DOMAIN inst :
        (id \in startTasks \/ is_running(inst[id])) => id \in Tracked


(* Claim about the listen tasks, under SpecListen. *)

\* C36: at most one listen task of a serial interface is running at any time,
\* whatever the order of the start() and stop() calls made on the interface
\* or on its DeviceInstance.
C36_OneListenLoop == Cardinality(Listeners) <= 1


\* The protocol types _create_protocol has a branch for.
SupportedTypes == {"raw", "scpi", "modbus_tcp"}

\* Definition i is enabled, its interface can be built, its protocol type is
\* one the factory has a branch for, and no other definition has its name.
WellFormed(i) ==
    /\ is_enabled(defs[i])
    /\ create_interface(defs[i]) = "ok"
    /\ defs[i].ptype \in SupportedTypes
    /\ \A j \in DOMAIN defs : j # i => defs[j].name # defs[i].name

\* C37: when start_all has returned, every well-formed enabled definition of
\* a supported protocol type has become a DeviceInstance the manager tracks
\* under the definition's name.
C37_SupportedTypesAreBuilt ==
    startAllRes = "returned" =>
        \A i \in DOMAIN defs :
            WellFormed(i) =>
                /\ defs[i].name \in DOMAIN devices
                /\ inst[devices[defs[i].name]].def = i


(* Claim about the two handlers over one rule set, under SpecSame. *)

\* C38: for the same rules and the same frame, terminator included, the
\* stream-framed handler and the raw handler select the same rule and return
\* the same response bytes.
C38_SameMatchAsRaw ==
    cmpReq.made =>
        /\ cmpScpi.m = cmpRaw.m
        /\ cmpScpi.some = cmpRaw.some
        /\ cmpScpi.bs = cmpRaw.bs


(* Further claim about the register store, under SpecRegs. *)

\* Register maps r and q hold the same types and, but for address a of type
\* t, the same values at the same addresses.
SameBut(r, q, t, a) ==
    /\ DOMAIN q = DOMAIN r
    /\ \A u \in DOMAIN r :
         /\ DOMAIN q[u] \ {a} = DOMAIN r[u] \ {a}
         /\ u # t => q[u] = r[u]
         /\ \A x \in DOMAIN r[u] \ {a} : q[u][x] = r[u][x]

\* C39: a read_registers call leaves the register map as it was, storing
\* none of the zeros it returns; a write_register call fails exactly for an
\* unknown type or a negative address and then leaves the map as it was,
\* creating no type, and otherwise changes nothing but the entry addressed.
C39_FrameEffect ==
    [][/\ readRes'.made => registers' = registers
       /\ written' # written =>
            LET w == written'[Len(written')]
            IN /\ w.ok <=> (w.t \in DOMAIN registers /\ w.address >= 0)
               /\ ~w.ok => registers' = registers
               /\ w.ok => /\ SameBut(registers, registers', w.t, w.address)
                          /\ registers'[w.t][w.address] = w.value]_vars

\* C39 witness: a write to an unknown type and a write to a negative address
\* failed, and a read that followed returned a zero for an address that the
\* map does not hold.
C39_Witness ==
    /\ \E i \in DOMAIN written : ~written[i].ok /\ written[i].address >= 0
    /\ \E i \in DOMAIN written : ~written[i].ok /\ written[i].address < 0
                                 /\ written[i].t \in DOMAIN registers
    /\ readRes.made
    /\ readRes.ret.some
    /\ \E i \in DOMAIN readRes.ret.values :
         /\ readRes.ret.values[i] = 0
         /\ readRes.address + i - 1 \notin DOMAIN registers[readRes.t]


(* Claim about the register map under concurrent connections, under
   SpecShared. *)

\* The successful writes to address a of type t, by position in the log.
SharedWritesTo(t, a) ==
    {i \in DOMAIN shLog : shLog[i].ok /\ shLog[i].t = t /\ shLog[i].address = a}

\* C40: the values a read_registers call has read so far were all read with
\* the same writes made before them, no write of another connection having
\* taken effect between two of its addresses; and every address holds the
\* value of the last write made to it, or the configured value if none was.
C40_Serialized ==
    /\ \A c \in SharedConns :
         shOps[c].kind = "read" =>
             \A i, j \in DOMAIN shOps[c].at : shOps[c].at[i] = shOps[c].at[j]
    /\ \A t \in DOMAIN shRegs : \A a \in DOMAIN shRegs[t] :
         shRegs[t][a] = IF SharedWritesTo(t, a) = {} THEN SharedConfig[t][a]
                        ELSE shLog[Greatest(SharedWritesTo(t, a))].value

\* C40 witness: a read over two addresses was answered while another
\* connection, whose write had arrived before the read was made, wrote one
\* of them afterwards; the read returned the values from before the write.
C40_Witness ==
    \E c, d \in SharedConns :
        /\ c # d
        /\ shOps[c].kind = "read"
        /\ shOps[c].st = "replying"
        /\ shOps[c].count = 2
        /\ shOps[c].values = <<SharedConfig["holding"][0], SharedConfig["holding"][1]>>
        /\ shOps[d].kind = "write"
        /\ shOps[d].st = "replying"
        /\ shOps[d].address \in {shOps[c].address, shOps[c].address + 1}
        /\ shRegs[shOps[d].t][shOps[d].address]
               # SharedConfig[shOps[d].t][shOps[d].address]

====
